---- MODULE Spec2Model ----
(***************************************************************************)
(* Model of the Veins/SUMO scenario generator (automated-file-generator.py)*)
(* as a state machine: the working directory, the process environment, the *)
(* generator window (SumoApp) and its worker threads (SumoWorker).         *)
(*                                                                         *)
(* Granularity: one action per file-system call group or external tool run *)
(* of create_files; a worker's steps interleave with the steps of another  *)
(* worker and of the window.  An external tool is a black box that either  *)
(* exits 0 having written its named output, or fails having written        *)
(* nothing; the downloader may also exit 0 without the expected file,      *)
(* which the code checks for.                                              *)
(***************************************************************************)
EXTENDS Integers, Sequences, FiniteSets, TLC

VARIABLES
    fs,        \* working directory: file name -> content (DOMAIN = existing files)
    environ,   \* os.environ['SUMO_HOME'] of the process: "unset" or a directory
    sysPath,   \* the tools directories appended to sys.path
    wk,        \* the SumoWorker objects: fields, position in run()/create_files()
    gui,       \* SumoApp: button, pending JS callbacks, plot viewer, self.worker
    sigq,      \* finished_signal emissions queued for the GUI thread
    world      \* what the external tools and the SUMO installation can do (never changes)

vars == <<fs, environ, sysPath, wk, gui, sigq, world>>

----------------------------------------------------------------------------
(* Bounds of the model *)

\* number of files that may already lie in the directory when the program starts
MaxPreFiles == 1

\* worker objects (one per started run); a set, every run gets a fresh object
Workers == {1, 2}

\* scenario names typed into filename_edit; the first is a prefix of the second
Stems == {<<"V">>, <<"V", "S">>}

\* a rectangle drawn on the map (west, south, east, north), as returned by the page
DrawnBox == [west |-> 10, south |-> 20, east |-> 11, north |-> 21]

\* the text of filename_edit when handle_bounds reads it
GuiStems == {<<"V">>}

\* values of the two spin boxes (ranges 100..100000 and 1..100000)
GuiEndTimes == {3600}
GuiNumTrips == {100}

\* num_trips handed to a SumoWorker built directly from a config dictionary
DirectNumTrips == {0, 100}

\* convBoundary values netconvert may write (min_x, min_y, max_x, max_y), metres
Boundaries == {<<0, 0, 1000, 500>>}

\* sizes in bytes of a downloaded map
DownloadSizes == {20000}

----------------------------------------------------------------------------
(* Program constants *)

MIN_OSM_FILE_SIZE == 1024 * 10

\* PERCENTAGE_INCREASE = 0.50 as a fraction PctNum / PctDen
PctNum == 1
PctDen == 2

\* lengths are kept in units of 1/Scale metre so that the halves (OFFSET = BUFFER / 2.0)
\* of the PctDen-ths the arithmetic produces are integers
Scale == PctDen * 2

FallbackHome == "/home/soltani/Downloads/Compressed/sumo-1.22.0"
EnvHome == "$SUMO_HOME"

\* the empty string create_files returns for launch and cfg on failure
EmptyStr == <<<<>>, "">>

\* the sentinel handle_bounds passes when no rectangle is drawn
DummyBounds == [west |-> 0, south |-> 0, east |-> 0, north |-> 0]

----------------------------------------------------------------------------
(* File names of the working directory: <<stem, suffix>>                   *)

Name(stem, suffix) == <<stem, suffix>>

osm_file(filename) == Name(filename, ".osm")
net_file(filename) == Name(filename, ".net.xml")
poly_file(filename) == Name(filename, ".poly.xml")
trip_file(filename) == Name(filename, ".trip.xml")
route_file(filename) == Name(filename, ".rou.xml")
bbox_file(prefix) == Name(prefix, "_bbox.osm.xml")
osmxml_file(filename) == Name(filename, ".osm.xml")
alt_file(filename) == Name(filename, ".rou.alt.xml")
launchd_file(filename) == Name(filename, ".launchd.xml")
sumocfg_file(filename) == Name(filename, ".sumo.cfg")
ini_file(filename) == Name(filename, ".omnetpp.ini")
log_dir(filename) == Name(filename, "-logs")
routes_tmp == Name(<<>>, "routes.rou.xml")

IsPrefix(p, s) == Len(p) <= Len(s) /\ SubSeq(s, 1, Len(p)) = p

\* os.path.exists
Exists(f) == f \in DOMAIN fs

Put(dir, f, c) == [x \in (DOMAIN dir) \cup {f} |-> IF x = f THEN c ELSE dir[x]]
Remove(dir, f) == [x \in (DOMAIN dir) \ {f} |-> dir[x]]
\* os.rename on POSIX: the target is replaced
Rename(dir, src, dst) == Put(Remove(dir, src), dst, dir[src])

\* glob.glob(f"{filename}*_bbox.osm.xml")
GlobBbox(dir, filename) ==
    {f \in DOMAIN dir : f[2] = "_bbox.osm.xml" /\ IsPrefix(filename, f[1])}

----------------------------------------------------------------------------
(* File contents.  Map data remembers where it came from: "download" = written *)
(* by osmGet.py during the program, "before" = it lay in the directory before.  *)

MapData(origin, size) == [kind |-> "osm", origin |-> origin, size |-> size]
NetData(loc) == [kind |-> "net", loc |-> loc]
Plain(kind) == [kind |-> kind]
RouData(doc) == [kind |-> "rou", doc |-> doc]

\* the <location convBoundary=...> block of a net file
LocOk(box) == [tag |-> "ok", box |-> box]
LocMissing == [tag |-> "missing", box |-> <<0, 0, 0, 0>>]
LocMalformed == [tag |-> "malformed", box |-> <<0, 0, 0, 0>>]
NetLocations == {LocOk(b) : b \in Boundaries} \cup {LocMissing, LocMalformed}

\* a route file: well-formed XML or not; its <vehicle> elements, each with or
\* without a <route> child, whose edges attribute is a list of edge ids
Vehicle(has_route, edges) == [route |-> has_route, edges |-> edges]
RouDoc(wellformed, vehicles) == [wellformed |-> wellformed, vehicles |-> vehicles]
RouteDocs ==
    { RouDoc(FALSE, <<Vehicle(TRUE, <<"a", "b">>)>>),     \* vehicles in the text, XML not well-formed
      RouDoc(TRUE, <<Vehicle(FALSE, <<>>)>>),
      RouDoc(TRUE, <<Vehicle(TRUE, <<"a", "b", "a">>), Vehicle(TRUE, <<"c", "b", "a">>)>>) }

----------------------------------------------------------------------------
(* most_used_route_finder: Counter over the edge ids, most_common(top_n)    *)

TOP_N == 10

RECURSIVE EdgeIds(_)
\* the edge ids in the order Counter.update sees them
EdgeIds(vehicles) ==
    IF vehicles = <<>> THEN <<>>
    ELSE LET v == Head(vehicles)
         IN  (IF v.route /\ v.edges # <<>> THEN v.edges ELSE <<>>) \o EdgeIds(Tail(vehicles))

RECURSIVE total_edges_distinct(_)
\* a total that counts every edge of a vehicle once
total_edges_distinct(vehicles) ==
    IF vehicles = <<>> THEN 0
    ELSE LET v == Head(vehicles)
         IN  (IF v.route /\ v.edges # <<>> THEN Cardinality({v.edges[k] : k \in 1..Len(v.edges)}) ELSE 0)
                + total_edges_distinct(Tail(vehicles))

RECURSIVE total_edges(_)
\* total_edges += len(edge_ids), over the vehicles in document order
total_edges(vehicles) ==
    IF vehicles = <<>> THEN 0
    ELSE LET v == Head(vehicles)
         IN  (IF v.route /\ v.edges # <<>> THEN Len(v.edges) ELSE 0) + total_edges(Tail(vehicles))

RECURSIVE CountOf(_, _)
CountOf(e, ids) ==
    IF ids = <<>> THEN 0
    ELSE (IF Head(ids) = e THEN 1 ELSE 0) + CountOf(e, Tail(ids))

RECURSIVE FirstSeen(_, _)
\* the Counter's keys, in insertion order
FirstSeen(ids, seen) ==
    IF ids = <<>> THEN <<>>
    ELSE IF Head(ids) \in seen THEN FirstSeen(Tail(ids), seen)
         ELSE <<Head(ids)>> \o FirstSeen(Tail(ids), seen \cup {Head(ids)})

\* Counter(edge ids) as the list of (edge, count) in insertion order
edge_counts(vehicles) ==
    LET ids == EdgeIds(vehicles)
        keys == FirstSeen(ids, {})
    IN  [i \in 1..Len(keys) |-> <<keys[i], CountOf(keys[i], ids)>>]

RECURSIVE most_common_last(_, _)
\* a ranking that puts the later of two equally frequent edges first
most_common_last(items, n) ==
    IF n = 0 \/ items = <<>> THEN <<>>
    ELSE LET best == CHOOSE i \in 1..Len(items) :
                        /\ \A j \in 1..Len(items) : items[j][2] <= items[i][2]
                        /\ \A j \in (i + 1)..Len(items) : items[j][2] < items[i][2]
             rest == [k \in 1..(Len(items) - 1) |-> IF k < best THEN items[k] ELSE items[k + 1]]
         IN  <<items[best]>> \o most_common_last(rest, n - 1)

RECURSIVE most_common(_, _)
\* Counter.most_common(n): by count descending, equal counts in insertion order
most_common(items, n) ==
    IF n = 0 \/ items = <<>> THEN <<>>
    ELSE LET best == CHOOSE i \in 1..Len(items) :
                        /\ \A j \in 1..Len(items) : items[j][2] <= items[i][2]
                        /\ \A j \in 1..(i - 1) : items[j][2] < items[i][2]
             rest == [k \in 1..(Len(items) - 1) |-> IF k < best THEN items[k] ELSE items[k + 1]]
         IN  <<items[best]>> \o most_common(rest, n - 1)

\* an analyzer without the try/except around ET.parse that counts what it can read
route_finder_lenient(doc, top_n) == most_common(edge_counts(doc.vehicles), top_n)

\* the list most_used_route_finder returns for a route file that exists
most_used_route_finder(doc, top_n) ==
    IF ~doc.wellformed THEN <<>>
    ELSE most_common(edge_counts(doc.vehicles), top_n)

----------------------------------------------------------------------------
(* Geometry of create_files, in units of 1/Scale metre                      *)

original_width(box) == (box[3] - box[1]) * Scale
original_height(box) == (box[4] - box[2]) * Scale
BUFFER_SIZE(extent) == (extent * PctNum) \div PctDen
OFFSET(extent) == BUFFER_SIZE(extent) \div 2
play_ground_final(extent) == extent + BUFFER_SIZE(extent)
\* the centre of the map itself, without the shift by half the buffer
rsu_unshifted(extent) == extent \div 2
rsu_shifted(extent) == (extent \div 2) + OFFSET(extent)

Geometry(box) ==
    [pg_x |-> play_ground_final(original_width(box)),
     pg_y |-> play_ground_final(original_height(box)),
     rsu_x |-> rsu_shifted(original_width(box)),
     rsu_y |-> rsu_shifted(original_height(box))]

----------------------------------------------------------------------------
(* SumoWorker                                                               *)

\* what create_files returns on every failure: (False, "", "", None); a plot
\* figure is modelled by the list of edges it draws, None by the empty list
FailRet == [success |-> FALSE, launch |-> EmptyStr, cfg |-> EmptyStr, plot_figure |-> <<>>]

\* create_most_used_edges_plot: None when there are no edges
create_most_used_edges_plot(top_edges) == top_edges

\* SumoWorker.__init__; pc "start" = the thread is started, run() not yet entered
SumoWorker(config) ==
    [pc |-> "start",
     filename |-> config.filename, bbox |-> config.bbox,
     end_time |-> config.end_time, num_trips |-> config.num_trips,
     sumo_home |-> "",
     cmds |-> <<>>,        \* the command lines handed to subprocess.Popen, in order
     log |-> <<>>,         \* the log_signal emissions, in order
     ops |-> {},           \* the file operations of the run and of its tools
     top_edges |-> <<>>,
     ret |-> FailRet,      \* the tuple create_files returned
     exc |-> "",           \* the exception create_files raised, if any
     failed |-> "none"]    \* the place at which the run gave up

NoWorker ==
    [SumoWorker([filename |-> <<>>, bbox |-> DummyBounds, end_time |-> 0, num_trips |-> 0])
        EXCEPT !.pc = "idle"]

Msg(kind, text) == <<kind, text>>

\* how an external process ends: exit status 0, another exit status, or Popen raising
Outcomes == {"ok", "nonzero", "notfound"}

\* run_command: the log lines and the boolean it returns
run_command(description, outcome) ==
    [ok |-> outcome = "ok",
     log |-> <<Msg("Running", description),
               CASE outcome = "ok" -> Msg("finished successfully", description)
                 [] outcome = "nonzero" -> Msg("failed with return code", description)
                 [] OTHER -> Msg("Command not found", description)>>]

Cmd(tool, args) == [tool |-> tool, args |-> args]

BboxStr(bbox) == <<bbox.west, bbox.south, bbox.east, bbox.north>>

\* file_size > MIN_OSM_FILE_SIZE
IsValidSize(file_size) == file_size > MIN_OSM_FILE_SIZE

\* the step create_files would take next had the step at `place` succeeded
StepAfter(place) ==
    CASE place = "download" -> "rename"
      [] place = "rename" -> "netconvert"
      [] place = "netconvert" -> "polyconvert"
      [] place = "trips" -> "duarouter"
      [] place = "duarouter" -> "analyze"
      [] OTHER -> "cleanup"

\* a create_files that logs the failure of a step but does not return: the
\* result of run_command is ignored, as it is for polyconvert
GiveUpIgnored(me, place, lines) ==
    [me EXCEPT !.pc = StepAfter(place), !.log = @ \o lines]

\* `return False, "", "", None` at the given place of create_files; run() then
\* takes its else branch, which logs nothing and emits finished_signal(False, None)
GiveUp(me, place, lines) ==
    [me EXCEPT !.pc = "done", !.ret = FailRet, !.failed = place, !.log = @ \o lines]

\* the arguments of the finished_signal a worker that ended has emitted
SignalOf(w, me) ==
    [worker |-> w, success |-> me.exc = "" /\ me.ret.success,
     plot_figure |-> IF me.exc = "" /\ me.ret.success THEN me.ret.plot_figure ELSE <<>>]

\* a run() that emits finished_signal in its success branch only
EmittedOnSuccess(w) ==
    IF wk'[w].pc = "done" /\ wk'[w].ret.success THEN Append(sigq, SignalOf(w, wk'[w])) ELSE sigq

\* finished_signal.emit at the end of run(): queued for the GUI thread
Emitted(w) == IF wk'[w].pc = "done" THEN Append(sigq, SignalOf(w, wk'[w])) ELSE sigq

\* a find_sumo_and_add_path that sets os.environ['SUMO_HOME'] to the fallback
\* before it tests whether the fallback exists
RunFallbackUntested(w) ==
    /\ wk[w].pc = "start"
    /\ LET me == [wk[w] EXCEPT !.log = @ \o <<Msg("log", "--- Starting SUMO Generation Process ---")>>]
       IN  \/ /\ environ # "unset"
              /\ wk' = [wk EXCEPT ![w] = [me EXCEPT !.pc = "step1", !.sumo_home = environ,
                                             !.log = @ \o <<Msg("log", "Found SUMO_HOME")>>]]
              /\ sysPath' = sysPath \cup {<<environ, "tools">>}
              /\ UNCHANGED environ
           \/ /\ environ = "unset"
              /\ \E fallback_exists \in world.fallback :
                    IF fallback_exists
                    THEN /\ environ' = FallbackHome
                         /\ wk' = [wk EXCEPT ![w] = [me EXCEPT !.pc = "step1", !.sumo_home = FallbackHome,
                                                        !.log = @ \o <<Msg("log", "Found SUMO_HOME")>>]]
                         /\ sysPath' = sysPath \cup {<<FallbackHome, "tools">>}
                    ELSE /\ wk' = [wk EXCEPT ![w] = [me EXCEPT !.pc = "done", !.failed = "find_sumo",
                                        !.log = @ \o <<Msg("log", "Error: SUMO_HOME environment variable is not set and fallback path not found."),
                                                       Msg("log", "Error: SUMO_HOME not found.")>>]]
                         /\ environ' = FallbackHome
                         /\ UNCHANGED sysPath
    /\ sigq' = Emitted(w)
    /\ UNCHANGED <<fs, gui, world>>

\* run(): entry and find_sumo_and_add_path
Run(w) ==
    /\ wk[w].pc = "start"
    /\ LET me == [wk[w] EXCEPT !.log = @ \o <<Msg("log", "--- Starting SUMO Generation Process ---")>>]
       IN  \/ /\ environ # "unset"
              /\ wk' = [wk EXCEPT ![w] = [me EXCEPT !.pc = "step1", !.sumo_home = environ,
                                             !.log = @ \o <<Msg("log", "Found SUMO_HOME")>>]]
              /\ sysPath' = sysPath \cup {<<environ, "tools">>}
              /\ UNCHANGED environ
           \/ /\ environ = "unset"
              /\ \E fallback_exists \in world.fallback :
                    IF fallback_exists
                    THEN /\ environ' = FallbackHome
                         /\ wk' = [wk EXCEPT ![w] = [me EXCEPT !.pc = "step1", !.sumo_home = FallbackHome,
                                                        !.log = @ \o <<Msg("log", "Found SUMO_HOME")>>]]
                         /\ sysPath' = sysPath \cup {<<FallbackHome, "tools">>}
                    ELSE /\ wk' = [wk EXCEPT ![w] = [me EXCEPT !.pc = "done", !.failed = "find_sumo",
                                        !.log = @ \o <<Msg("log", "Error: SUMO_HOME environment variable is not set and fallback path not found."),
                                                       Msg("log", "Error: SUMO_HOME not found.")>>]]
                         /\ UNCHANGED <<environ, sysPath>>
    /\ sigq' = Emitted(w)
    /\ UNCHANGED <<fs, gui, world>>

\* create_files, Step 1 up to `if should_download`
Step1(w) ==
    /\ wk[w].pc = "step1"
    /\ LET me == wk[w]
           f == osm_file(me.filename)
           osm_file_exists == Exists(f)
           should_download == ~(osm_file_exists /\ IsValidSize(fs[f].size))
       IN  wk' = [wk EXCEPT ![w] =
                [me EXCEPT !.pc = IF should_download THEN "download" ELSE "netconvert",
                           !.ops = @ \cup (IF osm_file_exists THEN {<<"getsize", f>>} ELSE {}),
                           !.log = @ \o <<Msg("log", "--- Step 1: Map Data Setup ---")>>
                                     \o (IF ~osm_file_exists THEN <<>>
                                         ELSE IF ~should_download
                                         THEN <<Msg("log", "Found existing OSM file"),
                                                Msg("log", "Skipping download step and using existing file.")>>
                                         ELSE <<Msg("log", "Found file, but size is too small"),
                                                Msg("log", "Re-downloading map data to ensure completeness.")>>)]]
    /\ UNCHANGED <<fs, environ, sysPath, gui, sigq, world>>

\* create_files, Step 1: osmGet.py --bbox=... -p filename -d .
Download(w) ==
    /\ wk[w].pc = "download"
    /\ \E outcome \in world.outcomes :
        LET me == [wk[w] EXCEPT !.log = @ \o <<Msg("log", "Starting download...")>>,
                                !.cmds = Append(@, Cmd("osmGet.py", <<BboxStr(wk[w].bbox), wk[w].filename>>))]
            r == run_command("OSM Download", outcome)
        IN  IF r.ok
            THEN \E produced \in world.produced, size \in DownloadSizes :
                    LET out == IF produced = "bbox" THEN bbox_file(me.filename) ELSE osmxml_file(me.filename)
                    IN  /\ fs' = IF produced = "nothing" THEN fs ELSE Put(fs, out, MapData("download", size))
                        /\ wk' = [wk EXCEPT ![w] = [me EXCEPT !.pc = "rename", !.log = @ \o r.log,
                                     !.ops = @ \cup (IF produced = "nothing" THEN {} ELSE {<<"write", out>>})]]
            ELSE /\ wk' = [wk EXCEPT ![w] = GiveUp(me, "download", r.log)]
                 /\ UNCHANGED fs
    /\ sigq' = Emitted(w)
    /\ UNCHANGED <<environ, sysPath, gui, world>>

\* create_files, Step 1: find the generated file and rename it
RenameDownloaded(w) ==
    /\ wk[w].pc = "rename"
    /\ LET me == wk[w]
           target == osm_file(me.filename)
           generated_files == GlobBbox(fs, me.filename)
       IN  IF generated_files # {}
           THEN \E generated_file \in generated_files :    \* generated_files[0], in directory order
                   /\ fs' = Rename(IF Exists(target) THEN Remove(fs, target) ELSE fs, generated_file, target)
                   /\ wk' = [wk EXCEPT ![w] = [me EXCEPT !.pc = "netconvert",
                                !.ops = @ \cup {<<"rename", generated_file>>, <<"write", target>>}
                                          \cup (IF Exists(target) THEN {<<"remove", target>>} ELSE {}),
                                !.log = @ \o <<Msg("log", "Renamed downloaded file")>>]]
           ELSE IF Exists(osmxml_file(me.filename))
           THEN /\ fs' = Rename(fs, osmxml_file(me.filename), target)
                /\ wk' = [wk EXCEPT ![w] = [me EXCEPT !.pc = "netconvert",
                                !.ops = @ \cup {<<"rename", osmxml_file(me.filename)>>, <<"write", target>>},
                                !.log = @ \o <<Msg("log", "Renamed .osm.xml")>>]]
           ELSE /\ wk' = [wk EXCEPT ![w] = GiveUp(me, "rename",
                                <<Msg("log", "Error: Download finished but expected output file not found.")>>)]
                /\ UNCHANGED fs
    /\ sigq' = Emitted(w)
    /\ UNCHANGED <<environ, sysPath, gui, world>>

\* create_files, Step 2: netconvert --osm-files osm_file -o net_file ...
Netconvert(w) ==
    /\ wk[w].pc = "netconvert"
    /\ \E outcome \in world.outcomes :
        LET fn == wk[w].filename
            me == [wk[w] EXCEPT !.log = @ \o <<Msg("log", "--- Step 2: Converting to Network (Netconvert) ---")>>,
                                !.cmds = Append(@, Cmd("netconvert", <<osm_file(fn), net_file(fn)>>))]
            r == run_command("Netconvert", outcome)
        IN  /\ r.ok => Exists(osm_file(fn))        \* the tool cannot succeed without its input
            /\ IF r.ok
               THEN \E loc \in world.locations :
                       /\ fs' = Put(fs, net_file(fn), NetData(loc))
                       /\ wk' = [wk EXCEPT ![w] = [me EXCEPT !.pc = "polyconvert", !.log = @ \o r.log,
                                    !.ops = @ \cup {<<"read", osm_file(fn)>>, <<"write", net_file(fn)>>}]]
               ELSE /\ wk' = [wk EXCEPT ![w] = GiveUp(me, "netconvert", r.log)]
                    /\ UNCHANGED fs
    /\ sigq' = Emitted(w)
    /\ UNCHANGED <<environ, sysPath, gui, world>>

\* a Step 3 that treats polyconvert like the other tools: `if not run_command(...): return False, ...`
PolyconvertFatal(w) ==
    /\ wk[w].pc = "polyconvert"
    /\ \E typemap_exists \in world.typemap, outcome \in world.outcomes :
        LET fn == wk[w].filename
            me == [wk[w] EXCEPT !.log = @ \o <<Msg("log", "--- Step 3: Generating Polygons (Polyconvert) ---")>>,
                                !.cmds = Append(@, Cmd("polyconvert", <<osm_file(fn), poly_file(fn)>>))]
            r == run_command("Polyconvert", outcome)
        IN  /\ typemap_exists
            /\ r.ok => Exists(osm_file(fn))
            /\ fs' = IF r.ok THEN Put(fs, poly_file(fn), Plain("poly")) ELSE fs
            /\ wk' = [wk EXCEPT ![w] = IF r.ok THEN [me EXCEPT !.pc = "trips", !.log = @ \o r.log]
                                       ELSE GiveUp(me, "polyconvert", r.log)]
    /\ sigq' = Emitted(w)
    /\ UNCHANGED <<environ, sysPath, gui, world>>

\* create_files, Step 3: polyconvert, only if the typemap exists; its result is ignored
Polyconvert(w) ==
    /\ wk[w].pc = "polyconvert"
    /\ \E typemap_exists \in world.typemap, outcome \in Outcomes :
        LET fn == wk[w].filename
            me == [wk[w] EXCEPT !.pc = "trips",
                                !.log = @ \o <<Msg("log", "--- Step 3: Generating Polygons (Polyconvert) ---")>>]
            r == run_command("Polyconvert", outcome)
        IN  IF typemap_exists
            THEN /\ outcome \in world.outcomes
                 /\ r.ok => Exists(osm_file(fn))
                 /\ fs' = IF r.ok THEN Put(fs, poly_file(fn), Plain("poly")) ELSE fs
                 /\ wk' = [wk EXCEPT ![w] = [me EXCEPT !.log = @ \o r.log,
                              !.cmds = Append(@, Cmd("polyconvert", <<osm_file(fn), poly_file(fn)>>)),
                              !.ops = @ \cup (IF r.ok THEN {<<"read", osm_file(fn)>>, <<"write", poly_file(fn)>>} ELSE {})]]
            ELSE /\ outcome = "ok"         \* no process is run: one successor only
                 /\ wk' = [wk EXCEPT ![w] = [me EXCEPT !.log = @ \o <<Msg("log", "Typemap not found, skipping Polyconvert.")>>]]
                 /\ UNCHANGED fs
    /\ sigq' = Emitted(w)
    /\ UNCHANGED <<environ, sysPath, gui, world>>

\* create_files, Step 4: trip_period = end_time / num_trips, then randomTrips.py
RandomTrips(w) ==
    /\ wk[w].pc = "trips"
    /\ LET fn == wk[w].filename
           me0 == [wk[w] EXCEPT !.log = @ \o <<Msg("log", "--- Step 4: Generating Random Trips ---")>>]
       IN  IF me0.num_trips = 0
           THEN \* the division raises ZeroDivisionError, which leaves create_files
                \* and is caught in run(): two log lines, finished_signal(False, None)
                /\ wk' = [wk EXCEPT ![w] = [me0 EXCEPT !.pc = "done", !.exc = "ZeroDivisionError",
                                !.failed = "exception",
                                !.log = @ \o <<Msg("Unexpected Error", "ZeroDivisionError"), Msg("log", "traceback")>>]]
                /\ UNCHANGED fs
           ELSE \E outcome \in world.outcomes :
                LET trip_period == <<me0.end_time, me0.num_trips>>     \* the quotient, as a fraction
                    me == [me0 EXCEPT !.cmds = Append(@, Cmd("randomTrips.py",
                                                <<net_file(fn), trip_file(fn), me0.end_time, trip_period>>))]
                    r == run_command("Random Trips", outcome)
                IN  /\ r.ok => Exists(net_file(fn))
                    /\ IF r.ok
                       THEN /\ fs' = Put(fs, trip_file(fn), Plain("trip"))
                            /\ wk' = [wk EXCEPT ![w] = [me EXCEPT !.pc = "duarouter", !.log = @ \o r.log,
                                         !.ops = @ \cup {<<"read", net_file(fn)>>, <<"write", trip_file(fn)>>}]]
                       ELSE /\ wk' = [wk EXCEPT ![w] = GiveUp(me, "trips", r.log)]
                            /\ UNCHANGED fs
    /\ sigq' = Emitted(w)
    /\ UNCHANGED <<environ, sysPath, gui, world>>

\* create_files, Step 5: duarouter -n net_file -t trip_file -o route_file
\* (duarouter also writes the alternatives file <route_file stem>.rou.alt.xml)
Duarouter(w) ==
    /\ wk[w].pc = "duarouter"
    /\ \E outcome \in world.outcomes :
        LET fn == wk[w].filename
            me == [wk[w] EXCEPT !.log = @ \o <<Msg("log", "--- Step 5: Calculating Routes (DUAROUTER) ---")>>,
                                !.cmds = Append(@, Cmd("duarouter", <<net_file(fn), trip_file(fn), route_file(fn)>>))]
            r == run_command("DUAROUTER", outcome)
        IN  /\ r.ok => (Exists(net_file(fn)) /\ Exists(trip_file(fn)))
            /\ IF r.ok
               THEN \E doc \in world.docs :
                       /\ fs' = Put(Put(fs, route_file(fn), RouData(doc)), alt_file(fn), Plain("alt"))
                       /\ wk' = [wk EXCEPT ![w] = [me EXCEPT !.pc = "analyze", !.log = @ \o r.log,
                                    !.ops = @ \cup {<<"read", net_file(fn)>>, <<"read", trip_file(fn)>>,
                                                    <<"write", route_file(fn)>>, <<"write", alt_file(fn)>>}]]
               ELSE /\ wk' = [wk EXCEPT ![w] = GiveUp(me, "duarouter", r.log)]
                    /\ UNCHANGED fs
    /\ sigq' = Emitted(w)
    /\ UNCHANGED <<environ, sysPath, gui, world>>

\* most_used_route_finder: the lines of the report it logs after a successful parse
route_report(doc) ==
    <<Msg("log", "--- Edge Usage Report ---"),
      Msg("Total Unique Edges Used", ToString(Len(edge_counts(doc.vehicles)))),
      Msg("Total Edges Traversed", ToString(total_edges(doc.vehicles)))>>

\* create_files, Step 6: most_used_route_finder, the plot, and the log directory
AnalyzeRoutes(w) ==
    /\ wk[w].pc = "analyze"
    /\ LET fn == wk[w].filename
           rf == route_file(fn)
           parsed == Exists(rf) /\ fs[rf].kind = "rou" /\ fs[rf].doc.wellformed
           top_edges_list == IF Exists(rf) /\ fs[rf].kind = "rou"
                             THEN most_used_route_finder(fs[rf].doc, TOP_N) ELSE <<>>
           made == ~Exists(log_dir(fn))
       IN  /\ wk' = [wk EXCEPT ![w] = [@ EXCEPT !.pc = "configs", !.top_edges = top_edges_list,
                        !.ops = @ \cup (IF Exists(rf) THEN {<<"read", rf>>} ELSE {})
                                  \cup (IF made THEN {<<"write", log_dir(fn)>>} ELSE {}),
                        !.log = @ \o <<Msg("log", "--- Step 6: Analyzing Route Usage and Plotting ---")>>
                                  \o (IF ~Exists(rf) THEN <<Msg("log", "Cannot analyze routes: File not found")>>
                                      ELSE <<Msg("log", "Starting analysis of most used edges")>>
                                           \o (IF parsed THEN route_report(fs[rf].doc)
                                               ELSE <<Msg("log", "Error during route analysis")>>))
                                  \o (IF top_edges_list # <<>>
                                      THEN <<Msg("log", "Graphical Report Figure created successfully.")>>
                                      ELSE <<Msg("log", "Plotting skipped: No edges found in the route file.")>>)
                                  \o (IF made THEN <<Msg("log", "Created output directory")>> ELSE <<>>)]]
           /\ fs' = IF made THEN Put(fs, log_dir(fn), Plain("dir")) ELSE fs
    /\ sigq' = Emitted(w)
    /\ UNCHANGED <<environ, sysPath, gui, world>>

\* generate_launchd: the <copy file=...> entries
generate_launchd(filename) ==
    [kind |-> "launchd",
     copies |-> {net_file(filename), route_file(filename), poly_file(filename), sumocfg_file(filename)}]

\* generate_sumocfg
generate_sumocfg(filename, routes, end_time) ==
    [kind |-> "sumocfg", net |-> net_file(filename), routes |-> routes,
     additional |-> poly_file(filename), end |-> end_time]

\* a template filled with the playground height and the RSU column exchanged
generate_omnetpp_ini_mixed(filename, pg_x, pg_y, rsu_x, rsu_y, end_time) ==
    [kind |-> "ini", playgroundSizeX |-> pg_x, playgroundSizeY |-> rsu_x,
     rsu_x |-> pg_y, rsu_y |-> rsu_y, sim_time_limit |-> end_time,
     launchConfig |-> launchd_file(filename)]

\* generate_omnetpp_ini: the values interpolated into the template
generate_omnetpp_ini(filename, pg_x, pg_y, rsu_x, rsu_y, end_time) ==
    [kind |-> "ini", playgroundSizeX |-> pg_x, playgroundSizeY |-> pg_y,
     rsu_x |-> rsu_x, rsu_y |-> rsu_y, sim_time_limit |-> end_time,
     launchConfig |-> launchd_file(filename)]

\* create_files, Step 7, first half: launchd and sumocfg are written
WriteConfigs(w) ==
    /\ wk[w].pc = "configs"
    /\ LET fn == wk[w].filename
       IN  /\ fs' = Put(Put(fs, launchd_file(fn), generate_launchd(fn)),
                        sumocfg_file(fn), generate_sumocfg(fn, route_file(fn), wk[w].end_time))
           /\ wk' = [wk EXCEPT ![w] = [@ EXCEPT !.pc = "geometry",
                        !.ops = @ \cup {<<"write", launchd_file(fn)>>, <<"write", sumocfg_file(fn)>>},
                        !.log = @ \o <<Msg("log", "--- Step 7: Writing Configuration Files ---"),
                                       Msg("log", "Created launchd.xml"), Msg("log", "Created sumo.cfg")>>]]
    /\ sigq' = Emitted(w)
    /\ UNCHANGED <<environ, sysPath, gui, world>>

\* create_files, Step 7, second half: convBoundary is read from net_file, the
\* playground and the RSU position are computed, omnetpp.ini is written
ExtractCoordinates(w) ==
    /\ wk[w].pc = "geometry"
    /\ LET fn == wk[w].filename
           nf == net_file(fn)
           me == [wk[w] EXCEPT !.log = @ \o <<Msg("log", "Extracting coordinates from net.xml...")>>,
                               !.ops = @ \cup (IF Exists(nf) THEN {<<"read", nf>>} ELSE {})]
           parsed == Exists(nf) /\ fs[nf].kind = "net" /\ fs[nf].loc.tag = "ok"
       IN  IF parsed
           THEN LET g == Geometry(fs[nf].loc.box)
                IN  /\ fs' = Put(fs, ini_file(fn),
                                 generate_omnetpp_ini(fn, g.pg_x, g.pg_y, g.rsu_x, g.rsu_y, me.end_time))
                    /\ wk' = [wk EXCEPT ![w] = [me EXCEPT !.pc = "cleanup",
                                 !.ops = @ \cup {<<"write", ini_file(fn)>>},
                                 !.log = @ \o <<Msg("log", "Created omnetpp.ini")>>]]
           ELSE /\ wk' = [wk EXCEPT ![w] = GiveUp(me, "geometry", <<Msg("log", "Error extracting coordinates")>>)]
                /\ UNCHANGED fs
    /\ sigq' = Emitted(w)
    /\ UNCHANGED <<environ, sysPath, gui, world>>

\* a cleanup that also takes the route file for a temporary
CleanupFilesEager(filename) == {routes_tmp, alt_file(filename), trip_file(filename), route_file(filename)}

\* the files cleanup removes when they exist
CleanupFiles(filename) == {routes_tmp, alt_file(filename), trip_file(filename)}

\* create_files, Step 8: cleanup, then `return True, launchd, sumocfg, plot_figure`;
\* run() logs the two names and emits finished_signal(True, plot_figure)
Cleanup(w) ==
    /\ wk[w].pc = "cleanup"
    /\ LET fn == wk[w].filename
           gone == CleanupFiles(fn) \cap DOMAIN fs
       IN  /\ fs' = [x \in (DOMAIN fs) \ gone |-> fs[x]]
           /\ wk' = [wk EXCEPT ![w] = [@ EXCEPT !.pc = "done",
                        !.ret = [success |-> TRUE, launch |-> launchd_file(fn), cfg |-> sumocfg_file(fn),
                                 plot_figure |-> create_most_used_edges_plot(wk[w].top_edges)],
                        !.ops = @ \cup {<<"remove", x>> : x \in gone},
                        !.log = @ \o <<Msg("log", "--- Step 8: Cleaning up ---")>>
                                  \o (IF gone # {} THEN <<Msg("log", "Removed temp file")>> ELSE <<>>)
                                  \o <<Msg("log", "PROCESS COMPLETE"), Msg("log", "Veins Launch File"),
                                        Msg("log", "SUMO Config File")>>]]
    /\ sigq' = Emitted(w)
    /\ UNCHANGED <<environ, sysPath, gui, world>>

WorkerStep(w) ==
    \/ Run(w) \/ Step1(w) \/ Download(w) \/ RenameDownloaded(w) \/ Netconvert(w)
    \/ Polyconvert(w) \/ RandomTrips(w) \/ Duarouter(w) \/ AnalyzeRoutes(w)
    \/ WriteConfigs(w) \/ ExtractCoordinates(w) \/ Cleanup(w)

----------------------------------------------------------------------------
(* SumoApp                                                                  *)

\* start_process: the Generate button is clicked; getSelectionBounds() is queued
start_process ==
    /\ gui.btn_generate
    \* every callback may need a fresh worker object: the model has finitely many
    /\ gui.pending < Cardinality({w \in Workers : wk[w].pc = "idle"})
    /\ gui' = [gui EXCEPT !.pending = @ + 1]
    /\ UNCHANGED <<fs, environ, sysPath, wk, sigq, world>>

\* handle_bounds: the callback of getSelectionBounds()
handle_bounds ==
    /\ gui.pending > 0
    /\ \E w \in Workers :
        /\ wk[w].pc = "idle"
        /\ \A v \in Workers : wk[v].pc = "idle" => w <= v        \* the next fresh worker object
        /\ \E has_bounds \in BOOLEAN, filename \in GuiStems, end_time \in GuiEndTimes, num_trips \in GuiNumTrips :
            LET f == osm_file(filename)
                is_valid_file == Exists(f) /\ IsValidSize(fs[f].size)
                bounds == IF has_bounds THEN DrawnBox ELSE DummyBounds
                config == [filename |-> filename, bbox |-> bounds,
                           end_time |-> end_time, num_trips |-> num_trips]
            IN  IF ~has_bounds /\ ~is_valid_file
                THEN \* Case 2: warning, back to the map tab, no worker
                     /\ gui' = [gui EXCEPT !.pending = @ - 1, !.tab = 0]
                     /\ UNCHANGED wk
                ELSE /\ gui' = [gui EXCEPT !.pending = @ - 1, !.tab = 1, !.btn_generate = FALSE, !.worker = w]
                     /\ wk' = [wk EXCEPT ![w] = SumoWorker(config)]
    /\ UNCHANGED <<fs, environ, sysPath, sigq, world>>

\* process_finished: the slot of finished_signal, run by the GUI thread
process_finished ==
    /\ sigq # <<>>
    /\ LET sig == Head(sigq)
       IN  gui' = [gui EXCEPT !.btn_generate = TRUE,
                              !.plot = IF sig.success /\ sig.plot_figure # <<>> THEN sig.plot_figure ELSE @,
                              !.tab = IF sig.success /\ sig.plot_figure # <<>> THEN 2 ELSE @]
    /\ sigq' = Tail(sigq)
    /\ UNCHANGED <<fs, environ, sysPath, wk, world>>

----------------------------------------------------------------------------
(* The directory's other users                                              *)

\* sizes of a map file around the validity threshold
PreSizes == {MIN_OSM_FILE_SIZE - 1, MIN_OSM_FILE_SIZE, MIN_OSM_FILE_SIZE + 1}

\* the map file a started worker is about to check is removed or truncated by
\* someone else, after handle_bounds looked at it and before create_files does
MapFileLost(w) ==
    /\ wk[w].pc \in {"start", "step1"}
    /\ LET f == osm_file(wk[w].filename)
       IN  /\ Exists(f) /\ IsValidSize(fs[f].size)
           /\ \/ fs' = Remove(fs, f)
              \/ fs' = Put(fs, f, MapData("before", MIN_OSM_FILE_SIZE - 1))
    /\ UNCHANGED <<environ, sysPath, wk, gui, sigq, world>>

----------------------------------------------------------------------------
(* Initial states and specifications                                        *)

\* what may lie in the directory before the program starts
PreFiles ==
    {<<osm_file(s), MapData("before", size)>> : s \in Stems, size \in PreSizes}
        \cup {<<bbox_file(s), MapData("before", size)>> : s \in Stems, size \in DownloadSizes}
        \cup {<<routes_tmp, Plain("tmp")>>}

InitDirs ==
    {d \in UNION {[names -> {p[2] : p \in PreFiles}] :
                    names \in {n \in SUBSET {p[1] : p \in PreFiles} : Cardinality(n) <= MaxPreFiles}} :
        \A f \in DOMAIN d : <<f, d[f]>> \in PreFiles}

\* every behaviour the code provides for
FullWorld ==
    [outcomes |-> Outcomes, produced |-> {"bbox", "osm.xml", "nothing"}, locations |-> NetLocations,
     docs |-> RouteDocs, typemap |-> BOOLEAN, fallback |-> BOOLEAN]

\* tools that are installed and deterministic apart from their exit status: used
\* where two workers run at once, to keep the product of their states small
PlainWorld ==
    [outcomes |-> {"ok", "nonzero"}, produced |-> {"bbox", "nothing"}, locations |-> {LocOk(b) : b \in Boundaries},
     docs |-> {d \in RouteDocs : d.wellformed /\ EdgeIds(d.vehicles) # <<>>},
     typemap |-> {TRUE}, fallback |-> BOOLEAN]

InitCommon ==
    /\ fs \in InitDirs
    /\ environ \in {"unset", EnvHome}
    /\ sysPath = {}
    /\ sigq = <<>>

\* the application: the window is shown, nothing was clicked yet
Init ==
    /\ InitCommon
    /\ world = PlainWorld
    /\ \A f \in DOMAIN fs : f[1] \in GuiStems \cup {<<>>}
    /\ wk = [w \in Workers |-> NoWorker]
    /\ gui = [btn_generate |-> TRUE, pending |-> 0, tab |-> 0, plot |-> <<>>, worker |-> 0]

Next ==
    \/ start_process
    \/ handle_bounds
    \/ process_finished
    \/ \E w \in Workers : WorkerStep(w)
    \/ \E w \in Workers : MapFileLost(w)

Spec == Init /\ [][Next]_vars

\* one SumoWorker built from a config dictionary and started, no window
DirectConfigs ==
    [filename : Stems, bbox : {DrawnBox, DummyBounds}, end_time : GuiEndTimes, num_trips : DirectNumTrips]

InitWorker ==
    /\ InitCommon
    /\ world = FullWorld
    /\ \E config \in DirectConfigs :
          wk = [w \in Workers |-> IF w = 1 THEN SumoWorker(config) ELSE NoWorker]
    /\ gui = [btn_generate |-> FALSE, pending |-> 0, tab |-> 1, plot |-> <<>>, worker |-> 1]

NextWorker == \E w \in Workers : WorkerStep(w)

SpecWorker == InitWorker /\ [][NextWorker]_vars

\* a started thread keeps running: run() is not interrupted, and every external
\* tool it waits for terminates.  The route files are short ones, and the
\* directory holds files of the run's own scenario only.
LightDocs ==
    { RouDoc(FALSE, <<Vehicle(TRUE, <<"a">>)>>),
      RouDoc(TRUE, <<Vehicle(FALSE, <<>>)>>),
      RouDoc(TRUE, <<Vehicle(TRUE, <<"a">>)>>) }

InitWorkerFair ==
    /\ InitCommon
    /\ \A f \in DOMAIN fs : f[1] \in GuiStems \cup {<<>>}
    /\ world = [FullWorld EXCEPT !.docs = LightDocs]
    /\ \E config \in {c \in DirectConfigs : c.filename \in GuiStems} :
          wk = [w \in Workers |-> IF w = 1 THEN SumoWorker(config) ELSE NoWorker]
    /\ gui = [btn_generate |-> FALSE, pending |-> 0, tab |-> 1, plot |-> <<>>, worker |-> 1]

SpecWorkerFair == InitWorkerFair /\ [][NextWorker]_vars /\ \A w \in Workers : WF_vars(WorkerStep(w))

\* two SumoWorkers with distinct scenario names, started in the same directory
InitPair ==
    /\ InitCommon
    /\ world = PlainWorld
    /\ wk = [w \in Workers |->
                SumoWorker([filename |-> IF w = 1 THEN <<"V">> ELSE <<"V", "S">>, bbox |-> DrawnBox,
                            end_time |-> CHOOSE e \in GuiEndTimes : TRUE,
                            num_trips |-> CHOOSE n \in GuiNumTrips : TRUE])]
    /\ gui = [btn_generate |-> FALSE, pending |-> 0, tab |-> 1, plot |-> <<>>, worker |-> 2]

NextPair == \E w \in Workers : WorkerStep(w)

SpecPair == InitPair /\ [][NextPair]_vars

\* one run in which every tool succeeds, over the convBoundary values netconvert
\* may write: corners from GeoMins and GeoMaxs, degenerate rectangles included
GeoMins == {-50, 0}
GeoMaxs == {-50, 0, 500, 1000, 2000}
GeoBoxes == {<<min_x, min_y, max_x, max_y>> : min_x \in GeoMins, min_y \in GeoMins,
                                               max_x \in GeoMaxs, max_y \in GeoMaxs}

GeoWorld ==
    [outcomes |-> {"ok"}, produced |-> {"bbox"}, locations |-> {LocOk(b) : b \in GeoBoxes},
     docs |-> {d \in RouteDocs : d.wellformed /\ EdgeIds(d.vehicles) # <<>>},
     typemap |-> {TRUE}, fallback |-> {TRUE}]

InitGeometry ==
    /\ fs = <<>>
    /\ environ \in {"unset", EnvHome}
    /\ sysPath = {}
    /\ sigq = <<>>
    /\ world = GeoWorld
    /\ wk = [w \in Workers |->
                IF w = 1 THEN SumoWorker([filename |-> <<"V">>, bbox |-> DrawnBox,
                                         end_time |-> CHOOSE e \in GuiEndTimes : TRUE,
                                         num_trips |-> CHOOSE n \in GuiNumTrips : TRUE])
                ELSE NoWorker]
    /\ gui = [btn_generate |-> FALSE, pending |-> 0, tab |-> 1, plot |-> <<>>, worker |-> 1]

NextGeometry == \E w \in Workers : WorkerStep(w)

SpecGeometry == InitGeometry /\ [][NextGeometry]_vars

----------------------------------------------------------------------------
(* most_used_route_finder called directly, more than once, on a SumoWorker   *)
(* that was built but not started                                           *)

\* vehicles in a route file, values of top_n, calls on the same worker object
MaxVehicles == 2
MaxTopN == 3
MaxCalls == 2

\* the edges attribute of a <route> element, split at white space
EdgeLists == {<<>>, <<"a">>, <<"b", "c">>, <<"a", "b", "a">>, <<"c", "b", "a">>}

AnalyzerVehicles == {Vehicle(TRUE, e) : e \in EdgeLists} \cup {Vehicle(FALSE, <<>>)}

AnalyzerDocs ==
    {RouDoc(wellformed, vehicles) :
        wellformed \in BOOLEAN,
        vehicles \in UNION {[1..n -> AnalyzerVehicles] : n \in 0..MaxVehicles}}

\* the caller keeps to one top_n
AnalyzerWorld(top_n) ==
    [outcomes |-> Outcomes, produced |-> {"bbox"}, locations |-> {LocMissing}, docs |-> AnalyzerDocs,
     typemap |-> {TRUE}, fallback |-> {TRUE}, top_n |-> {top_n}]

\* the calls of most_used_route_finder a worker object has served
Calls(me) ==
    Cardinality({i \in 1..Len(me.log) :
        me.log[i] \in {Msg("log", "Starting analysis of most used edges"),
                       Msg("log", "Cannot analyze routes: File not found")}})

\* a Counter and a total kept in the object from one call to the next
counted_kept(me, vehicles) == IF Calls(me) > 0 THEN vehicles \o vehicles ELSE vehicles

\* edge_counts = Counter(); total_edges = 0: every call counts from nothing
counted(me, vehicles) == vehicles

\* one call of most_used_route_finder(route_file, top_n)
Analyze(w) ==
    /\ wk[w].pc = "built"
    /\ Calls(wk[w]) < MaxCalls
    /\ \E top_n \in world.top_n :
        LET me == wk[w]
            rf == route_file(me.filename)
        IN  IF ~Exists(rf)
            THEN wk' = [wk EXCEPT ![w] = [me EXCEPT !.top_edges = <<>>,
                            !.log = @ \o <<Msg("log", "Cannot analyze routes: File not found")>>]]
            ELSE LET doc == RouDoc(fs[rf].doc.wellformed, counted(me, fs[rf].doc.vehicles))
                 IN  wk' = [wk EXCEPT ![w] = [me EXCEPT
                            !.top_edges = most_used_route_finder(doc, top_n),
                            !.ops = @ \cup {<<"read", rf>>},
                            !.log = @ \o <<Msg("log", "Starting analysis of most used edges")>>
                                      \o (IF doc.wellformed THEN route_report(doc)
                                          ELSE <<Msg("log", "Error during route analysis")>>)]]
    /\ UNCHANGED <<fs, environ, sysPath, gui, sigq, world>>

InitAnalyzer ==
    /\ \E top_n \in 0..MaxTopN : world = AnalyzerWorld(top_n)
    /\ \/ fs = <<>>
       \/ \E doc \in world.docs : fs = Put(<<>>, route_file(<<"V">>), RouData(doc))
    /\ environ = EnvHome
    /\ sysPath = {}
    /\ sigq = <<>>
    /\ wk = [w \in Workers |->
                IF w = 1 THEN [SumoWorker([filename |-> <<"V">>, bbox |-> DrawnBox,
                                          end_time |-> CHOOSE e \in GuiEndTimes : TRUE,
                                          num_trips |-> CHOOSE n \in GuiNumTrips : TRUE])
                                  EXCEPT !.pc = "built"]
                ELSE NoWorker]
    /\ gui = [btn_generate |-> FALSE, pending |-> 0, tab |-> 1, plot |-> <<>>, worker |-> 1]

NextAnalyzer == \E w \in Workers : Analyze(w)

SpecAnalyzer == InitAnalyzer /\ [][NextAnalyzer]_vars

----------------------------------------------------------------------------
(* Reading a run's log and command list                                     *)

InLog(me, m) == \E i \in 1..Len(me.log) : me.log[i] = m

Invoked(me, tool) == \E i \in 1..Len(me.cmds) : me.cmds[i].tool = tool

TimesInvoked(me, tool) == Cardinality({i \in 1..Len(me.cmds) : me.cmds[i].tool = tool})

\* the stages of the pipeline, in the order the design gives them
StageOrder ==
    <<"AcquireMap", "ConvertNetwork", "ConvertPolygons", "GenerateTrips", "ComputeRoutes",
      "AnalyzeUsage", "ComputeGeometry", "WriteConfigs", "Cleanup", "Done">>

StagePos(stage) == CHOOSE i \in 1..Len(StageOrder) : StageOrder[i] = stage

\* the log line with which create_files (or run) enters a stage
StageMarkers ==
    {<<Msg("log", "--- Step 1: Map Data Setup ---"), "AcquireMap">>,
     <<Msg("log", "--- Step 2: Converting to Network (Netconvert) ---"), "ConvertNetwork">>,
     <<Msg("log", "--- Step 3: Generating Polygons (Polyconvert) ---"), "ConvertPolygons">>,
     <<Msg("log", "--- Step 4: Generating Random Trips ---"), "GenerateTrips">>,
     <<Msg("log", "--- Step 5: Calculating Routes (DUAROUTER) ---"), "ComputeRoutes">>,
     <<Msg("log", "--- Step 6: Analyzing Route Usage and Plotting ---"), "AnalyzeUsage">>,
     <<Msg("log", "Extracting coordinates from net.xml..."), "ComputeGeometry">>,
     <<Msg("log", "--- Step 7: Writing Configuration Files ---"), "WriteConfigs">>,
     <<Msg("log", "--- Step 8: Cleaning up ---"), "Cleanup">>,
     <<Msg("log", "PROCESS COMPLETE"), "Done">>}

IsMarker(m) == \E p \in StageMarkers : p[1] = m
StageOf(m) == (CHOOSE p \in StageMarkers : p[1] = m)[2]

\* the stages a run has entered, in order
StagesEntered(me) ==
    LET marks == SelectSeq(me.log, IsMarker)
    IN  [i \in 1..Len(marks) |-> StageOf(marks[i])]

\* the log lines that report the failure of a mandatory stage
ToolFailed(me, description) ==
    \/ InLog(me, Msg("failed with return code", description))
    \/ InLog(me, Msg("Command not found", description))

MandatoryFailed(me) ==
    \/ ToolFailed(me, "OSM Download")
    \/ InLog(me, Msg("log", "Error: Download finished but expected output file not found."))
    \/ ToolFailed(me, "Netconvert")
    \/ ToolFailed(me, "Random Trips")
    \/ InLog(me, Msg("Unexpected Error", "ZeroDivisionError"))
    \/ ToolFailed(me, "DUAROUTER")
    \/ InLog(me, Msg("log", "Error extracting coordinates"))

\* the finished_signal a run has emitted says failure
EmittedFailure(w) ==
    \E i \in 1..Len(sigq) : sigq[i].worker = w /\ ~sigq[i].success /\ sigq[i].plot_figure = <<>>

Wrote(me, f) == <<"write", f>> \in me.ops

----------------------------------------------------------------------------
(* C1: fail-fast.  Once a mandatory stage of a run has failed (its tool     *)
(* exited non-zero or could not be launched, the download left no file, the *)
(* trip period could not be computed, or the coordinates could not be      *)
(* parsed), the run has ended with a failure signal, and from then on it    *)
(* starts no further command, performs no further file operation, and      *)
(* enters no further stage.                                                *)
C1_FailFast ==
    /\ [](\A w \in Workers : MandatoryFailed(wk[w]) => wk[w].pc = "done" /\ EmittedFailure(w))
    /\ [][\A w \in Workers : MandatoryFailed(wk[w]) =>
             /\ wk'[w].cmds = wk[w].cmds
             /\ wk'[w].ops = wk[w].ops
             /\ StagesEntered(wk'[w]) = StagesEntered(wk[w])]_vars

\* a run whose route computation failed after four earlier tools had run
C1_Witness ==
    \E w \in Workers :
        /\ ToolFailed(wk[w], "DUAROUTER") /\ wk[w].pc = "done"
        /\ Invoked(wk[w], "osmGet.py") /\ Invoked(wk[w], "randomTrips.py")

----------------------------------------------------------------------------
(* C2: stage order and no retries.  In every run the stages are entered in  *)
(* the order AcquireMap, ConvertNetwork, ConvertPolygons, GenerateTrips,    *)
(* ComputeRoutes, AnalyzeUsage, ComputeGeometry, WriteConfigs, Cleanup,     *)
(* Done, each at most once, and each external tool is invoked at most once. *)
C2_StageOrder ==
    \A w \in Workers :
        LET st == StagesEntered(wk[w])
        IN  /\ \A i, j \in 1..Len(st) : i < j => StagePos(st[i]) < StagePos(st[j])
            /\ \A i \in 1..Len(wk[w].cmds) : TimesInvoked(wk[w], wk[w].cmds[i].tool) = 1

----------------------------------------------------------------------------
(* C3: the cache gate of AcquireMap.  When create_files makes its check, it *)
(* skips the download exactly if the map file exists with a size of at      *)
(* least 10240 bytes.                                                       *)
C3_CacheGate ==
    [][\A w \in Workers :
         (wk[w].pc = "step1" /\ wk'[w].pc # "step1") =>
            LET f == osm_file(wk[w].filename)
            IN  (wk'[w].pc = "netconvert") <=> (Exists(f) /\ fs[f].size >= MIN_OSM_FILE_SIZE)]_vars

----------------------------------------------------------------------------
(* C4: the all-zero sentinel box is never handed to the downloader.         *)
C4_NoSentinelDownload ==
    \A w \in Workers : \A i \in 1..Len(wk[w].cmds) :
        wk[w].cmds[i].tool = "osmGet.py" => wk[w].cmds[i].args[1] # BboxStr(DummyBounds)

----------------------------------------------------------------------------
(* C5: run isolation.  Every file a run (or a tool it started) reads,       *)
(* writes, renames or removes has a name made of the run's own scenario     *)
(* name and a suffix, and no run reads, renames or removes a file that      *)
(* another run has written.                                                 *)
OwnNames(filename) ==
    {osm_file(filename), net_file(filename), poly_file(filename), trip_file(filename),
     route_file(filename), bbox_file(filename), osmxml_file(filename), alt_file(filename),
     launchd_file(filename), sumocfg_file(filename), ini_file(filename), log_dir(filename)}

C5_Isolation ==
    /\ \A w \in Workers : \A op \in wk[w].ops : op[2] \in OwnNames(wk[w].filename)
    /\ \A w, v \in Workers : \A op \in wk[w].ops :
          (w # v /\ op[1] \in {"read", "rename", "remove"}) => <<"write", op[2]>> \notin wk[v].ops

----------------------------------------------------------------------------
(* C6: no configuration artifact is written by a run whose coordinate       *)
(* extraction fails.                                                        *)
C6_GeometryGatesConfigs ==
    \A w \in Workers :
        InLog(wk[w], Msg("log", "Error extracting coordinates")) =>
            LET fn == wk[w].filename
            IN  ~Wrote(wk[w], launchd_file(fn)) /\ ~Wrote(wk[w], sumocfg_file(fn)) /\ ~Wrote(wk[w], ini_file(fn))

----------------------------------------------------------------------------
(* C7: a run with num_trips = 0 that reaches the trip generation ends there *)
(* as an ordinary stage failure of create_files: no exception leaves        *)
(* create_files, and randomTrips.py is not invoked.                         *)
C7_ZeroTripsGuarded ==
    \A w \in Workers :
        (wk[w].num_trips = 0 /\ InLog(wk[w], Msg("log", "--- Step 4: Generating Random Trips ---"))) =>
            /\ wk[w].pc = "done"
            /\ wk[w].exc = ""
            /\ ~InLog(wk[w], Msg("Unexpected Error", "ZeroDivisionError"))
            /\ ~Invoked(wk[w], "randomTrips.py")

----------------------------------------------------------------------------
(* C8: the result of a failed run tells which stage aborted: two runs that  *)
(* failed in different stages return different results.                     *)
AbortedStage(me) ==
    CASE ToolFailed(me, "OSM Download") -> "AcquireMap"
      [] InLog(me, Msg("log", "Error: Download finished but expected output file not found.")) -> "AcquireMap"
      [] ToolFailed(me, "Netconvert") -> "ConvertNetwork"
      [] ToolFailed(me, "Random Trips") -> "GenerateTrips"
      [] ToolFailed(me, "DUAROUTER") -> "ComputeRoutes"
      [] InLog(me, Msg("log", "Error extracting coordinates")) -> "ComputeGeometry"
      [] OTHER -> "none"

C8_TaggedFailure ==
    \A w, v \in Workers :
        (/\ wk[w].pc = "done" /\ wk[v].pc = "done"
         /\ AbortedStage(wk[w]) # "none" /\ AbortedStage(wk[v]) # "none"
         /\ AbortedStage(wk[w]) # AbortedStage(wk[v]))
            => wk[w].ret # wk[v].ret

----------------------------------------------------------------------------
(* C9: a run whose network conversion failed has ended, and it has neither  *)
(* written, renamed nor removed its trip, route or configuration files;     *)
(* none of them exists.                                                     *)
DownstreamFiles(filename) ==
    {trip_file(filename), route_file(filename), launchd_file(filename),
     sumocfg_file(filename), ini_file(filename)}

C9_ConvertFailureFrame ==
    \A w \in Workers :
        ToolFailed(wk[w], "Netconvert") =>
            /\ wk[w].pc = "done"
            /\ \A f \in DownstreamFiles(wk[w].filename) :
                  /\ ~Exists(f)
                  /\ \A kind \in {"write", "rename", "remove"} : <<kind, f>> \notin wk[w].ops

\* a run that downloaded its map and then failed in netconvert
C9_Witness ==
    \E w \in Workers :
        /\ ToolFailed(wk[w], "Netconvert") /\ wk[w].pc = "done"
        /\ InLog(wk[w], Msg("log", "Renamed downloaded file"))

----------------------------------------------------------------------------
(* C10: when a download is needed, the network converter is invoked only    *)
(* after the downloader exited with status 0 and an output file was found   *)
(* and renamed; the rename leaves the map file of the run in place, holding *)
(* what this run's downloader wrote, and the renamed file is gone.          *)
C10_AcquireByDownload ==
    /\ [](\A w \in Workers :
            (Invoked(wk[w], "osmGet.py") /\ Invoked(wk[w], "netconvert")) =>
                /\ InLog(wk[w], Msg("finished successfully", "OSM Download"))
                /\ \/ InLog(wk[w], Msg("log", "Renamed downloaded file"))
                   \/ InLog(wk[w], Msg("log", "Renamed .osm.xml")))
    /\ [][\A w \in Workers :
            (wk[w].pc = "rename" /\ wk'[w].pc = "netconvert") =>
                LET target == osm_file(wk[w].filename)
                IN  /\ target \in DOMAIN fs'
                    /\ fs'[target].origin = "download"
                    /\ \E g \in {bbox_file(wk[w].filename), osmxml_file(wk[w].filename)} :
                          g \in DOMAIN fs /\ g \notin DOMAIN fs' /\ fs'[target] = fs[g]]_vars

----------------------------------------------------------------------------
(* C11: polygon conversion is best-effort.  The step of create_files that   *)
(* handles it always leads on to the trip generation; polyconvert has been  *)
(* invoked exactly when the typemap was found (no "Typemap not found" line  *)
(* was logged); and a run in which polyconvert failed or was skipped and no *)
(* mandatory stage failed ends in success.                                  *)
TypemapMissing(me) == InLog(me, Msg("log", "Typemap not found, skipping Polyconvert."))

SumoMissing(me) == InLog(me, Msg("log", "Error: SUMO_HOME not found."))

C11_PolygonsBestEffort ==
    /\ [][\A w \in Workers :
            (wk[w].pc = "polyconvert" /\ wk'[w] # wk[w]) =>
                /\ wk'[w].pc = "trips"
                /\ Invoked(wk'[w], "polyconvert") <=> ~TypemapMissing(wk'[w])]_vars
    /\ [](\A w \in Workers :
            (/\ wk[w].pc = "done"
             /\ ToolFailed(wk[w], "Polyconvert") \/ TypemapMissing(wk[w])
             /\ ~MandatoryFailed(wk[w])) => (wk[w].ret.success /\ wk[w].exc = ""))

\* a run that ended in success although polyconvert had failed
C11_Witness ==
    \E w \in Workers :
        wk[w].pc = "done" /\ wk[w].ret.success /\ ToolFailed(wk[w], "Polyconvert")

----------------------------------------------------------------------------
(* C12: the usage analysis is not fatal.  The analysis step always leads on *)
(* to the writing of the configuration; when the route file is missing, is  *)
(* not well-formed or carries no edges, the ranking is empty; and a run     *)
(* whose analysis found nothing and in which no mandatory stage failed ends *)
(* in success, without a figure.                                            *)
NothingToRank(dir, rf) ==
    \/ rf \notin DOMAIN dir
    \/ ~dir[rf].doc.wellformed
    \/ \A i \in 1..Len(dir[rf].doc.vehicles) :
          ~dir[rf].doc.vehicles[i].route \/ dir[rf].doc.vehicles[i].edges = <<>>

PlotSkipped(me) == InLog(me, Msg("log", "Plotting skipped: No edges found in the route file."))

C12_AnalysisNonFatal ==
    /\ [][\A w \in Workers :
            (wk[w].pc = "analyze" /\ wk'[w] # wk[w]) =>
                /\ wk'[w].pc = "configs"
                /\ NothingToRank(fs, route_file(wk[w].filename)) =>
                      (wk'[w].top_edges = <<>> /\ PlotSkipped(wk'[w]))]_vars
    /\ [](\A w \in Workers :
            (wk[w].pc = "done" /\ PlotSkipped(wk[w]) /\ ~MandatoryFailed(wk[w])) =>
                (wk[w].ret.success /\ wk[w].exc = "" /\ wk[w].ret.plot_figure = <<>>))

\* a run that ended in success after its route file could not be parsed
C12_Witness ==
    \E w \in Workers :
        /\ wk[w].pc = "done" /\ wk[w].ret.success
        /\ InLog(wk[w], Msg("log", "Error during route analysis"))
        /\ Wrote(wk[w], ini_file(wk[w].filename))

----------------------------------------------------------------------------
(* C13: the artifacts of a successful run.  When a run has ended in success *)
(* the map, the network, the routes, the three configuration files and the  *)
(* log directory exist under the names made of the run's scenario name, and *)
(* the only files the run has removed are its trip file, its alternatives   *)
(* file, routes.rou.xml and a too small map file it replaced.               *)
Artifacts(filename) ==
    {osm_file(filename), net_file(filename), route_file(filename), launchd_file(filename),
     sumocfg_file(filename), ini_file(filename), log_dir(filename)}

Temporaries(filename) == {trip_file(filename), alt_file(filename), routes_tmp}

----------------------------------------------------------------------------
(* C14: a degenerate rectangle is rejected.  A run writes its omnetpp.ini   *)
(* only if the convBoundary of its network has positive width and height.   *)
BoxOf(dir, filename) == dir[net_file(filename)].loc.box

Width(box) == box[3] - box[1]
Height(box) == box[4] - box[2]

C14_DegenerateRejected ==
    \A w \in Workers :
        Wrote(wk[w], ini_file(wk[w].filename)) =>
            LET box == BoxOf(fs, wk[w].filename)
            IN  Width(box) > 0 /\ Height(box) > 0

----------------------------------------------------------------------------
(* C15: the geometry arithmetic.  Whenever create_files computes the        *)
(* geometry of a rectangle of width W > 0 and height H > 0, the playground  *)
(* is W(1+P) by H(1+P), the RSU is at (W/2 + W*P/2, H/2 + H*P/2) and lies    *)
(* strictly inside the playground; W = 1000, H = 2000 gives 1500, 3000, 750 *)
(* and 1500.  (Lengths are in units of 1/Scale metre, P = PctNum/PctDen.)   *)
C15_GeometryArithmetic ==
    [][\A w \in Workers :
        (wk[w].pc = "geometry" /\ wk'[w].pc = "cleanup") =>
            LET box == BoxOf(fs, wk[w].filename)
                W == Width(box)
                H == Height(box)
                g == Geometry(box)
            IN  (W > 0 /\ H > 0) =>
                    /\ g.pg_x * PctDen = W * Scale * (PctDen + PctNum)
                    /\ g.pg_y * PctDen = H * Scale * (PctDen + PctNum)
                    /\ g.rsu_x * 2 * PctDen = W * Scale * PctDen + W * Scale * PctNum
                    /\ g.rsu_y * 2 * PctDen = H * Scale * PctDen + H * Scale * PctNum
                    /\ 0 < g.rsu_x /\ g.rsu_x < g.pg_x
                    /\ 0 < g.rsu_y /\ g.rsu_y < g.pg_y
                    /\ (W = 1000 /\ H = 2000) =>
                          g = [pg_x |-> 1500 * Scale, pg_y |-> 3000 * Scale,
                               rsu_x |-> 750 * Scale, rsu_y |-> 1500 * Scale]]_vars

\* the geometry of a 1000 by 2000 rectangle has been computed and written
C15_Witness ==
    \E w \in Workers :
        /\ wk[w].pc = "cleanup"
        /\ Width(BoxOf(fs, wk[w].filename)) = 1000 /\ Height(BoxOf(fs, wk[w].filename)) = 2000
        /\ fs[ini_file(wk[w].filename)].playgroundSizeY = 3000 * Scale

----------------------------------------------------------------------------
(* C16: the configuration carries the geometry.  When a run ends in success *)
(* its omnetpp.ini holds the playground size and the RSU position computed  *)
(* from the convBoundary of its network, the simulation time limit equal to *)
(* end_time and the name of its launch file; for convBoundary 0,0,1000,500  *)
(* and end_time 3600 these are 1500, 750, 750, 375 and 3600.                *)
C16_IniCarriesGeometry ==
    [][\A w \in Workers :
        (wk[w].pc # "done" /\ wk'[w].pc = "done" /\ wk'[w].ret.success) =>
            LET fn == wk[w].filename
                box == BoxOf(fs', fn)
                ini == fs'[ini_file(fn)]
            IN  /\ ini.playgroundSizeX * PctDen = Width(box) * Scale * (PctDen + PctNum)
                /\ ini.playgroundSizeY * PctDen = Height(box) * Scale * (PctDen + PctNum)
                /\ ini.rsu_x * 2 * PctDen = Width(box) * Scale * (PctDen + PctNum)
                /\ ini.rsu_y * 2 * PctDen = Height(box) * Scale * (PctDen + PctNum)
                /\ ini.sim_time_limit = wk[w].end_time
                /\ ini.launchConfig = launchd_file(fn)
                /\ (box = <<0, 0, 1000, 500>> /\ wk[w].end_time = 3600) =>
                      /\ ini.playgroundSizeX = 1500 * Scale /\ ini.playgroundSizeY = 750 * Scale
                      /\ ini.rsu_x = 750 * Scale /\ ini.rsu_y = 375 * Scale
                      /\ ini.sim_time_limit = 3600]_vars

\* a successful run over a network with convBoundary 0,0,1000,500
C16_Witness ==
    \E w \in Workers :
        /\ wk[w].pc = "done" /\ wk[w].ret.success /\ wk[w].end_time = 3600
        /\ BoxOf(fs, wk[w].filename) = <<0, 0, 1000, 500>>
        /\ fs[ini_file(wk[w].filename)].rsu_y = 375 * Scale

----------------------------------------------------------------------------
(* Reading the result of a direct call of most_used_route_finder            *)

\* the route document the worker's calls have read
DocOf(me) == fs[route_file(me.filename)].doc

\* the top_n of the calls
TopNOf == CHOOSE n \in world.top_n : TRUE

\* the worker has analysed a route file that exists and is well-formed
Ranked(me) ==
    me.pc = "built" /\ Calls(me) > 0 /\ Exists(route_file(me.filename)) /\ DocOf(me).wellformed

Occurrences(e, ids) == Cardinality({k \in 1..Len(ids) : ids[k] = e})

FirstAt(e, ids) == CHOOSE k \in 1..Len(ids) : ids[k] = e /\ \A j \in 1..(k - 1) : ids[j] # e

Distinct(ids) == {ids[k] : k \in 1..Len(ids)}

Min(a, b) == IF a < b THEN a ELSE b

RECURSIVE SumSeq(_)
SumSeq(numbers) == IF numbers = <<>> THEN 0 ELSE Head(numbers) + SumSeq(Tail(numbers))

----------------------------------------------------------------------------
(* C17: the ranking.  The list most_used_route_finder returns for a         *)
(* well-formed route file has min(top_n, number of distinct edges) entries, *)
(* each an edge with its exact number of occurrences, ordered by count     *)
(* descending, equal counts in the order the edges were first met, and no   *)
(* edge left out ranks before one that is in; a,b,a,c,b,a with top_n = 2    *)
(* gives (a,3),(b,2).                                                       *)
C17_Ranking ==
    \A w \in Workers :
        Ranked(wk[w]) =>
            LET ids == EdgeIds(DocOf(wk[w]).vehicles)
                r == wk[w].top_edges
                Before(e, f) ==
                    \/ Occurrences(e, ids) > Occurrences(f, ids)
                    \/ Occurrences(e, ids) = Occurrences(f, ids) /\ FirstAt(e, ids) < FirstAt(f, ids)
            IN  /\ Len(r) = Min(TopNOf, Cardinality(Distinct(ids)))
                /\ \A i \in 1..Len(r) : r[i][1] \in Distinct(ids) /\ r[i][2] = Occurrences(r[i][1], ids)
                /\ \A i, j \in 1..Len(r) : i < j => Before(r[i][1], r[j][1])
                /\ \A e \in Distinct(ids) \ {r[i][1] : i \in 1..Len(r)} :
                      \A i \in 1..Len(r) : Before(r[i][1], e)
                /\ (ids = <<"a", "b", "a", "c", "b", "a">> /\ TopNOf = 2) => r = << <<"a", 3>>, <<"b", 2>> >>

\* the example, analysed
C17_Witness ==
    \E w \in Workers :
        /\ Ranked(wk[w]) /\ TopNOf = 2
        /\ EdgeIds(DocOf(wk[w]).vehicles) = <<"a", "b", "a", "c", "b", "a">>
        /\ wk[w].top_edges = << <<"a", 3>>, <<"b", 2>> >>

----------------------------------------------------------------------------
(* C18: the totals.  After a well-formed route file was analysed, every     *)
(* "Total Edges Traversed" line of the report gives the sum of the lengths  *)
(* of the edge lists of the vehicles that carry a route, every "Total       *)
(* Unique Edges Used" line the number of distinct edge ids, and when the    *)
(* ranking holds every edge its counts add up to the total.                 *)
C18_Totals ==
    \A w \in Workers :
        Ranked(wk[w]) =>
            LET vs == DocOf(wk[w]).vehicles
                traversed == SumSeq([i \in 1..Len(vs) |-> IF vs[i].route THEN Len(vs[i].edges) ELSE 0])
                unique == Cardinality(UNION {Distinct(vs[i].edges) : i \in {k \in 1..Len(vs) : vs[k].route}})
                r == wk[w].top_edges
            IN  /\ InLog(wk[w], Msg("Total Edges Traversed", ToString(traversed)))
                /\ InLog(wk[w], Msg("Total Unique Edges Used", ToString(unique)))
                /\ \A i \in 1..Len(wk[w].log) :
                      /\ wk[w].log[i][1] = "Total Edges Traversed" => wk[w].log[i][2] = ToString(traversed)
                      /\ wk[w].log[i][1] = "Total Unique Edges Used" => wk[w].log[i][2] = ToString(unique)
                /\ Len(r) = unique => SumSeq([i \in 1..Len(r) |-> r[i][2]]) = traversed

\* a file with a repeated edge, a vehicle without a route: 3 traversals, 2 edges
C18_Witness ==
    \E w \in Workers :
        /\ Ranked(wk[w])
        /\ DocOf(wk[w]).vehicles = <<Vehicle(FALSE, <<>>), Vehicle(TRUE, <<"a", "b", "a">>)>>
        /\ InLog(wk[w], Msg("Total Edges Traversed", "3"))
        /\ InLog(wk[w], Msg("Total Unique Edges Used", "2"))

----------------------------------------------------------------------------
(* C19: the error outcomes of the analyzer.  A call of                      *)
(* most_used_route_finder on a route file that does not exist or is not     *)
(* well-formed returns the empty list, logs no report, raises nothing and   *)
(* leaves the worker object ready for its caller.                           *)
C19_AnalyzerErrors ==
    \A w \in Workers :
        (/\ wk[w].pc = "built" /\ Calls(wk[w]) > 0
         /\ ~Exists(route_file(wk[w].filename)) \/ ~DocOf(wk[w]).wellformed) =>
            /\ wk[w].top_edges = <<>>
            /\ wk[w].exc = ""
            /\ ~InLog(wk[w], Msg("log", "--- Edge Usage Report ---"))
            /\ \/ InLog(wk[w], Msg("log", "Cannot analyze routes: File not found"))
               \/ InLog(wk[w], Msg("log", "Error during route analysis"))

\* a file that is not well-formed but has vehicles with edges in its text, analysed
C19_Witness ==
    \E w \in Workers :
        /\ wk[w].pc = "built" /\ Calls(wk[w]) > 0
        /\ Exists(route_file(wk[w].filename)) /\ ~DocOf(wk[w]).wellformed
        /\ EdgeIds(DocOf(wk[w]).vehicles) # <<>>
        /\ wk[w].top_edges = <<>>

----------------------------------------------------------------------------
----------------------------------------------------------------------------
(* The analysis application (log_visualization.py).  An AnalysisWorker      *)
(* reads the four output files of a scenario's clean and blocked            *)
(* simulations and compares them; AdvancedVisApp shows what it is sent.     *)
(* The variables are those of the generator: fs is the search path, wk the  *)
(* AnalysisWorker objects, gui the AdvancedVisApp window, sigq the signals  *)
(* queued for the GUI thread.                                               *)

\* <tripinfo> elements of a tripinfo file, <step> elements of a summary file
MaxTrips == 2
MaxSteps == 2

\* a vehicle that kept its route and one that was rerouted and delayed
TripInfos == {[time_loss |-> 0, rerouteNo |-> 0], [time_loss |-> 7, rerouteNo |-> 1]}

\* meanSpeed of a <step>; SUMO writes -1 for a step without vehicles
MeanSpeeds == {-1, 0, 3}

TripDoc(wellformed, trips) == [kind |-> "tripinfo", wellformed |-> wellformed, trips |-> trips]
SumDoc(wellformed, mean_speed) == [kind |-> "summary", wellformed |-> wellformed, mean_speed |-> mean_speed]

TripDocs ==
    {TripDoc(TRUE, trips) : trips \in UNION {[1..n -> TripInfos] : n \in 0..MaxTrips}}
        \cup {TripDoc(FALSE, <<>>)}
SumDocs ==
    {SumDoc(TRUE, speeds) : speeds \in UNION {[1..n -> MeanSpeeds] : n \in 0..MaxSteps}}
        \cup {SumDoc(FALSE, <<>>)}

\* paths = {...}: the four files of scenario b inside its log folder
paths(b) ==
    [c_t |-> Name(b, "-logs/Clean_tripinfo_output.xml"),
     b_t |-> Name(b, "-logs/Blocked_tripinfo_output.xml"),
     c_s |-> Name(b, "-logs/Clean_summary_output.xml"),
     b_s |-> Name(b, "-logs/Blocked_summary_output.xml")]

\* Numbers: a float is modelled by the exact fraction num/den (den > 0) or nan
Rat(num, den) == [nan |-> FALSE, num |-> num, den |-> den]
NaN == [nan |-> TRUE, num |-> 0, den |-> 1]
Zero == Rat(0, 1)

RatEq(a, b) == a.nan = b.nan /\ (~a.nan => a.num * b.den = b.num * a.den)
RatSub(a, b) == IF a.nan \/ b.nan THEN NaN ELSE Rat(a.num * b.den - b.num * a.den, a.den * b.den)
\* a / b * 100 for b # 0
RatPct(a, b) ==
    IF a.nan \/ b.nan THEN NaN
    ELSE IF b.num > 0 THEN Rat(a.num * b.den * 100, a.den * b.num)
    ELSE Rat(0 - a.num * b.den * 100, a.den * (0 - b.num))

\* np.mean: nan (and a warning) for an empty list
np_mean(numbers) == IF numbers = <<>> THEN NaN ELSE Rat(SumSeq(numbers), Len(numbers))

\* f"{x:.1f}", f"{x:.2f}": the number of units of 10^-digits nearest to x
Pow10(digits) == IF digits = 1 THEN 10 ELSE 100
Fmt(x, digits) ==
    IF x.nan THEN [nan |-> TRUE, units |-> 0, digits |-> digits]
    ELSE LET n == x.num * Pow10(digits)
             q == n \div x.den
             r == n - q * x.den
         IN  [nan |-> FALSE, digits |-> digits,
              units |-> IF 2 * r < x.den THEN q
                        ELSE IF 2 * r > x.den THEN q + 1
                        ELSE IF q % 2 = 0 THEN q ELSE q + 1]

\* parse_trip: ET.parse raises for a missing or a malformed file
parse_trip(dir, path) ==
    IF path \notin DOMAIN dir THEN [raised |-> "FileNotFoundError", count |-> 0, reroutes |-> 0, time_loss |-> <<>>]
    ELSE IF ~dir[path].wellformed THEN [raised |-> "ParseError", count |-> 0, reroutes |-> 0, time_loss |-> <<>>]
    ELSE LET trips == dir[path].trips
         IN  [raised |-> "", count |-> Len(trips),
              reroutes |-> Cardinality({i \in 1..Len(trips) : trips[i].rerouteNo > 0}),
              time_loss |-> [i \in 1..Len(trips) |-> trips[i].time_loss]]

\* parse_sum
parse_sum(dir, path) ==
    IF path \notin DOMAIN dir THEN [raised |-> "FileNotFoundError", mean_speed |-> <<>>]
    ELSE IF ~dir[path].wellformed THEN [raised |-> "ParseError", mean_speed |-> <<>>]
    ELSE [raised |-> "", mean_speed |-> dir[path].mean_speed]

\* the figures of a comparison: each is modelled by its name and what it draws
FigNames == {"congestion", "distribution", "scatter", "length", "bars"}
Figures(b, ct, bt, cs, bs) ==
    {[name |-> n, of |-> b,
      clean |-> IF n = "congestion" THEN cs.mean_speed ELSE ct.time_loss,
      blocked |-> IF n = "congestion" THEN bs.mean_speed ELSE bt.time_loss] : n \in FigNames}

\* (speed_reduction / clean_mean_speed) * 100 if clean_mean_speed > 0 else 0
speed_reduction_pct(speed_reduction, clean_mean_speed) ==
    IF ~clean_mean_speed.nan /\ clean_mean_speed.num > 0
    THEN RatPct(speed_reduction, clean_mean_speed) ELSE Zero

\* a line of the report: its label and the formatted value
Line(label, value) == <<label, value>>
Whole(n) == [nan |-> FALSE, units |-> n, digits |-> 0]

\* t.reroutes/t.count*100, evaluated only where it does not raise
reroute_rate(t) == Rat(t.reroutes * 100, t.count)

\* the body of run() after the four files were parsed
compare(b, ct, bt, cs, bs) ==
    LET clean_mean_speed == np_mean(cs.mean_speed)
        blocked_mean_speed == np_mean(bs.mean_speed)
        speed_reduction == RatSub(clean_mean_speed, blocked_mean_speed)
        pct == speed_reduction_pct(speed_reduction, clean_mean_speed)
    IN  [clean_mean_speed |-> clean_mean_speed, blocked_mean_speed |-> blocked_mean_speed,
         speed_reduction |-> speed_reduction, speed_reduction_pct |-> pct,
         report |->
            <<Line("RESEARCH SUMMARY", b),
              Line("Total Vehicles (Clean)", Whole(ct.count)),
              Line("Total Vehicles (Blocked)", Whole(bt.count)),
              Line("Vehicles Rerouted (Clean)", Whole(ct.reroutes)),
              Line("Rerouted % (Clean)", Fmt(reroute_rate(ct), 1)),
              Line("Vehicles Rerouted (Blocked)", Whole(bt.reroutes)),
              Line("Rerouted % (Blocked)", Fmt(reroute_rate(bt), 1)),
              Line("Avg Mean Speed (Clean)", Fmt(clean_mean_speed, 2)),
              Line("Avg Mean Speed (Blocked)", Fmt(blocked_mean_speed, 2)),
              Line("SPEED REDUCTION", Fmt(speed_reduction, 2)),
              Line("SPEED REDUCTION %", Fmt(pct, 1)),
              Line("Avg Time Loss (Clean)", Fmt(np_mean(ct.time_loss), 1)),
              Line("Avg Time Loss (Blocked)", Fmt(np_mean(bt.time_loss), 1)),
              Line("ATTACK IMPACT (Added Delay)",
                   Fmt(RatSub(np_mean(bt.time_loss), np_mean(ct.time_loss)), 2))>>]

\* the exception that ends run(), "" if there is none: the files are parsed in
\* the order c_t, b_t, c_s, b_s; the report divides by both trip counts
Raised(ct, bt, cs, bs) ==
    IF ct.raised # "" THEN ct.raised
    ELSE IF bt.raised # "" THEN bt.raised
    ELSE IF cs.raised # "" THEN cs.raised
    ELSE IF bs.raised # "" THEN bs.raised
    ELSE IF ct.count = 0 \/ bt.count = 0 THEN "ZeroDivisionError"
    ELSE ""

\* what run() has computed when it raised before the report was built
NoStats ==
    [clean_mean_speed |-> NaN, blocked_mean_speed |-> NaN, speed_reduction |-> NaN,
     speed_reduction_pct |-> NaN, report |-> <<>>]

\* AnalysisWorker.__init__; pc "start" = the thread is started
AnalysisWorker(base_name, folder_path) ==
    [pc |-> "start", base_name |-> base_name, folder_path |-> folder_path,
     log |-> <<>>,          \* the log_signal emissions, in order
     raised |-> "",         \* the exception run() caught
     stats |-> NoStats]     \* the local variables of run() and the report

NoAnalysisWorker == [AnalysisWorker(<<>>, log_dir(<<>>)) EXCEPT !.pc = "idle"]

\* the two signals of an AnalysisWorker, as queued for the GUI thread
LogSignal(w, text) ==
    [signal |-> "log", worker |-> w, text |-> text, success |-> FALSE, figs |-> {}, report |-> <<>>]
FinishedSignal(w, success, figs, report) ==
    [signal |-> "finished", worker |-> w, text |-> Msg("", ""), success |-> success,
     figs |-> figs, report |-> report]

\* AnalysisWorker.run
AnalysisRun(w) ==
    /\ wk[w].pc = "start"
    /\ LET me == wk[w]
           b == me.base_name
           p == paths(b)
           ct == parse_trip(fs, p.c_t)
           bt == parse_trip(fs, p.b_t)
           cs == parse_sum(fs, p.c_s)
           bs == parse_sum(fs, p.b_s)
           raised == Raised(ct, bt, cs, bs)
           analyzing == Msg("log", "Analyzing files for scenario")
       IN  IF raised = ""
           THEN LET stats == compare(b, ct, bt, cs, bs)
                IN  /\ wk' = [wk EXCEPT ![w] = [me EXCEPT !.pc = "done", !.stats = stats,
                                                   !.log = @ \o <<analyzing>>]]
                    /\ sigq' = sigq \o <<LogSignal(w, analyzing),
                                         FinishedSignal(w, TRUE, Figures(b, ct, bt, cs, bs), stats.report)>>
           ELSE /\ wk' = [wk EXCEPT ![w] = [me EXCEPT !.pc = "done", !.raised = raised,
                                               !.log = @ \o <<analyzing, Msg("Error", raised)>>]]
                /\ sigq' = sigq \o <<LogSignal(w, analyzing), LogSignal(w, Msg("Error", raised)),
                                     FinishedSignal(w, FALSE, {}, <<>>)>>
    /\ UNCHANGED <<fs, environ, sysPath, gui, world>>

\* AdvancedVisApp.__init__
AdvancedVisApp ==
    [figs |-> {}, plots |-> {}, report_view |-> <<>>, log_view |-> <<>>,
     btn_save |-> FALSE, tab |-> 0, worker |-> 0]

\* run_analysis: Run Analysis is clicked with `scenario` in the name field
run_analysis ==
    \E scenario \in Stems :
        /\ IF log_dir(scenario) \notin DOMAIN fs
           THEN \* Path Error
                /\ gui' = [gui EXCEPT !.log_view = <<>>]
                /\ UNCHANGED wk
           ELSE \E w \in Workers :
                /\ wk[w].pc = "idle"
                /\ \A v \in Workers : wk[v].pc = "idle" => w <= v        \* the next fresh worker object
                /\ gui' = [gui EXCEPT !.log_view = <<>>, !.worker = w]
                /\ wk' = [wk EXCEPT ![w] = AnalysisWorker(scenario, log_dir(scenario))]
        /\ UNCHANGED <<fs, environ, sysPath, sigq, world>>

\* log_view.append: the slot of log_signal
log_view_append ==
    /\ sigq # <<>>
    /\ Head(sigq).signal = "log"
    /\ gui' = [gui EXCEPT !.log_view = Append(@, Head(sigq).text)]
    /\ sigq' = Tail(sigq)
    /\ UNCHANGED <<fs, environ, sysPath, wk, world>>

\* an update_ui without `if success`
update_ui_unconditional ==
    /\ sigq # <<>>
    /\ Head(sigq).signal = "finished"
    /\ LET sig == Head(sigq)
       IN  gui' = [gui EXCEPT !.figs = sig.figs, !.plots = sig.figs, !.report_view = sig.report,
                              !.btn_save = TRUE, !.tab = 6]
    /\ sigq' = Tail(sigq)
    /\ UNCHANGED <<fs, environ, sysPath, wk, world>>

\* update_ui: the slot of finished_signal
update_ui ==
    /\ sigq # <<>>
    /\ Head(sigq).signal = "finished"
    /\ LET sig == Head(sigq)
       IN  gui' = IF sig.success
                  THEN [gui EXCEPT !.figs = sig.figs, !.plots = sig.figs, !.report_view = sig.report,
                                   !.btn_save = TRUE, !.tab = 6]
                  ELSE gui
    /\ sigq' = Tail(sigq)
    /\ UNCHANGED <<fs, environ, sysPath, wk, world>>

\* the PNG file save_all writes for a figure
png_file(name) == Name(<<"Research_", name>>, ".png")

\* save_all: Export All PNGs is clicked; the folder dialog may be cancelled
save_all ==
    /\ gui.btn_save
    /\ \E dir_path \in BOOLEAN :
          fs' = IF dir_path
                THEN [f \in DOMAIN fs \cup {png_file(fig.name) : fig \in gui.figs} |->
                        IF \E fig \in gui.figs : f = png_file(fig.name)
                        THEN CHOOSE fig \in gui.figs : f = png_file(fig.name)
                        ELSE fs[f]]
                ELSE fs
    /\ UNCHANGED <<environ, sysPath, wk, gui, sigq, world>>

\* the files of a scenario a simulation pair has left in the search path
GoodLogs(b) ==
    LET p == paths(b)
        n == Len(b)
    IN  [f \in {log_dir(b), p.c_t, p.b_t, p.c_s, p.b_s} |->
            IF f = log_dir(b) THEN Plain("dir")
            ELSE IF f = p.c_t THEN TripDoc(TRUE, [i \in 1..n |-> [time_loss |-> 0, rerouteNo |-> 0]])
            ELSE IF f = p.b_t THEN TripDoc(TRUE, [i \in 1..n |-> [time_loss |-> 7, rerouteNo |-> 1]])
            ELSE IF f = p.c_s THEN SumDoc(TRUE, <<3>>)
            ELSE SumDoc(TRUE, [i \in 1..n |-> 0])]

\* the same with one of the four files missing or not well-formed
BrokenLogs(b) ==
    LET p == paths(b)
        good == GoodLogs(b)
    IN  {Remove(good, f) : f \in {p.c_t, p.b_t, p.c_s, p.b_s}}
           \cup {Put(good, f, [good[f] EXCEPT !.wellformed = FALSE]) : f \in {p.c_t, p.b_t, p.c_s, p.b_s}}

Merge(d1, d2) == [f \in DOMAIN d1 \cup DOMAIN d2 |-> IF f \in DOMAIN d1 THEN d1[f] ELSE d2[f]]

\* the analysis window is shown, nothing was clicked yet
InitVis ==
    /\ \E d1 \in {<<>>, GoodLogs(<<"V">>)} \cup BrokenLogs(<<"V">>),
          d2 \in {<<>>, GoodLogs(<<"V", "S">>)} \cup BrokenLogs(<<"V", "S">>) : fs = Merge(d1, d2)
    /\ environ = EnvHome
    /\ sysPath = {}
    /\ sigq = <<>>
    /\ world = PlainWorld
    /\ wk = [w \in Workers |-> NoAnalysisWorker]
    /\ gui = AdvancedVisApp

NextVis ==
    \/ run_analysis
    \/ log_view_append
    \/ update_ui
    \/ save_all
    \/ \E w \in Workers : AnalysisRun(w)

SpecVis == InitVis /\ [][NextVis]_vars

\* one AnalysisWorker started on a log folder whose four files hold anything,
\* and the window it reports to
ReportLogs(b) ==
    LET p == paths(b)
        absent == Plain("absent")
        present(d) == {f \in DOMAIN d : d[f] # absent}
    IN  {[f \in present(d) |-> d[f]] :
            d \in {(p.c_t :> ct) @@ (p.b_t :> bt) @@ (p.c_s :> cs) @@ (p.b_s :> bs) :
                     ct \in TripDocs \cup {absent}, bt \in TripDocs \cup {absent},
                     cs \in SumDocs \cup {absent}, bs \in SumDocs \cup {absent}}}

InitReport ==
    /\ \E d \in ReportLogs(<<"V">>) : fs = Put(d, log_dir(<<"V">>), Plain("dir"))
    /\ environ = EnvHome
    /\ sysPath = {}
    /\ sigq = <<>>
    /\ world = PlainWorld
    /\ wk = [w \in Workers |-> IF w = 1 THEN AnalysisWorker(<<"V">>, log_dir(<<"V">>)) ELSE NoAnalysisWorker]
    /\ gui = [AdvancedVisApp EXCEPT !.worker = 1]

NextReport ==
    \/ log_view_append
    \/ update_ui
    \/ \E w \in Workers : AnalysisRun(w)

SpecReport == InitReport /\ [][NextReport]_vars

----------------------------------------------------------------------------
(* Reading an analysis off the state                                        *)

\* the four input files of a worker's scenario are there and well-formed
InputsParse(me) ==
    LET p == paths(me.base_name)
    IN  \A f \in {p.c_t, p.b_t, p.c_s, p.b_s} : f \in DOMAIN fs /\ fs[f].wellformed

\* the value the report gives under a label; nan if the report has no such line
Reported(report, label) ==
    IF \E i \in 1..Len(report) : report[i][1] = label
    THEN report[CHOOSE i \in 1..Len(report) : report[i][1] = label][2]
    ELSE Fmt(NaN, 1)

----------------------------------------------------------------------------
(* C21: reroute-rate guard.  When the four input files parse and the clean  *)
(* or the blocked trip set is empty (totalCount = 0), the analysis still    *)
(* ends with a report, and the report gives 0 as the reroute rate of the    *)
(* empty set: no division by zero ends the analysis.                        *)
C21_EmptyTripSetReported ==
    \A w \in Workers :
        LET me == wk[w]
            p == paths(me.base_name)
        IN  (me.pc = "done" /\ InputsParse(me)) =>
                /\ (fs[p.c_t].trips = <<>> \/ fs[p.b_t].trips = <<>>) => me.stats.report # <<>>
                /\ fs[p.c_t].trips = <<>> =>
                       Reported(me.stats.report, "Rerouted % (Clean)") = Fmt(Zero, 1)
                /\ fs[p.b_t].trips = <<>> =>
                       Reported(me.stats.report, "Rerouted % (Blocked)") = Fmt(Zero, 1)

----------------------------------------------------------------------------
(* C22: mean-speed reduction.  In an analysis that ends with a report, over *)
(* summaries that both have samples: the reduction is mean(clean meanSpeed) *)
(* minus mean(blocked meanSpeed); the percentage is reduction / meanClean   *)
(* * 100 whenever meanClean is not 0, negative means included, and it is 0  *)
(* when meanClean is 0.                                                     *)
C22_SpeedReductionPct ==
    \A w \in Workers :
        LET me == wk[w]
            p == paths(me.base_name)
        IN  (me.pc = "done" /\ me.stats.report # <<>>
                /\ fs[p.c_s].mean_speed # <<>> /\ fs[p.b_s].mean_speed # <<>>) =>
                LET meanClean == np_mean(fs[p.c_s].mean_speed)
                    meanBlocked == np_mean(fs[p.b_s].mean_speed)
                    reduction == RatSub(meanClean, meanBlocked)
                IN  /\ RatEq(me.stats.speed_reduction, reduction)
                    /\ meanClean.num # 0 => RatEq(me.stats.speed_reduction_pct, RatPct(reduction, meanClean))
                    /\ meanClean.num = 0 => RatEq(me.stats.speed_reduction_pct, Zero)

----------------------------------------------------------------------------
(* C23: comparison inputs are all-or-nothing.  A run of the analysis that   *)
(* finds one of its four input files missing or unparseable emits a         *)
(* finished signal that says failure and carries no figure and an empty     *)
(* report; and the window, handed a failure, keeps the report and the       *)
(* figures it showed before.                                                *)
C23_AllOrNothing ==
    [][/\ \A w \in Workers :
            (wk[w].pc = "start" /\ wk'[w].pc = "done" /\ ~InputsParse(wk[w])) =>
                /\ wk'[w].stats.report = <<>>
                /\ sigq' # <<>>
                /\ sigq'[Len(sigq')] = FinishedSignal(w, FALSE, {}, <<>>)
       /\ (sigq # <<>> /\ sigq' = Tail(sigq) /\ Head(sigq).signal = "finished" /\ ~Head(sigq).success) =>
                /\ gui'.report_view = gui.report_view
                /\ gui'.figs = gui.figs
                /\ gui'.plots = gui.plots]_vars

\* a report is on display, and the analysis started last has failed on its
\* inputs and has been handed to the window
C23_Witness ==
    /\ gui.report_view # <<>>
    /\ gui.figs # {}
    /\ sigq = <<>>
    /\ gui.worker \in Workers
    /\ wk[gui.worker].pc = "done"
    /\ ~InputsParse(wk[gui.worker])

----------------------------------------------------------------------------
(* The log stream of a run as the window receives it: log_signal is         *)
(* connected to update_log across threads, so every emission is queued for  *)
(* the GUI thread and the slot runs once per emission, oldest first.        *)

\* update_log: log_view.append(text) for the oldest emission not yet delivered
update_log(w) ==
    /\ Len(gui.log_view) < Len(wk[w].log)
    /\ gui' = [gui EXCEPT !.log_view = Append(@, wk[w].log[Len(@) + 1])]
    /\ UNCHANGED <<fs, environ, sysPath, wk, sigq, world>>

\* one started worker and the window's log view
InitLog ==
    /\ fs \in {d \in InitDirs : \A f \in DOMAIN d : f[1] \in GuiStems}
    /\ environ \in {"unset", EnvHome}
    /\ sysPath = {}
    /\ sigq = <<>>
    /\ world = PlainWorld
    /\ \E filename \in GuiStems, end_time \in GuiEndTimes, num_trips \in GuiNumTrips :
          wk = [w \in Workers |->
                   IF w = 1 THEN SumoWorker([filename |-> filename, bbox |-> DrawnBox,
                                             end_time |-> end_time, num_trips |-> num_trips])
                   ELSE NoWorker]
    /\ gui = [btn_generate |-> FALSE, pending |-> 0, tab |-> 1, plot |-> <<>>, worker |-> 1,
              log_view |-> <<>>]

NextLog ==
    \/ \E w \in Workers : WorkerStep(w)
    \/ \E w \in Workers : update_log(w)

SpecLog == InitLog /\ [][NextLog]_vars

\* the stage markers of a log follow the order of the stages
MarkersInStageOrder(log) ==
    \A i, j \in 1..Len(log) :
        (i < j /\ IsMarker(log[i]) /\ IsMarker(log[j])) => StagePos(StageOf(log[i])) < StagePos(StageOf(log[j]))

\* every 'Running' line is followed by the line that tells how that tool
\* ended, with no line of another stage in between
ToolLinesPaired(log) ==
    \A i \in 1..Len(log) :
        log[i][1] = "Running" =>
            /\ i < Len(log)
            /\ log[i + 1][1] \in {"finished successfully", "failed with return code", "Command not found"}
            /\ log[i + 1][2] = log[i][2]

\* the window has received the first lines a worker emitted, in their order
ObservedInOrder(w) ==
    /\ Len(gui.log_view) <= Len(wk[w].log)
    /\ \A i \in 1..Len(gui.log_view) : gui.log_view[i] = wk[w].log[i]

----------------------------------------------------------------------------
(* C24: log stream ordering.  Within a run the log lines are emitted in     *)
(* stage order; the 'Running' line of every tool invocation comes before    *)
(* the line that reports how the tool ended, which comes before any line of *)
(* the next stage; and the window receives the lines in the order in which  *)
(* they were emitted.                                                       *)
C24_LogStreamOrder ==
    \A w \in Workers :
        wk[w].pc # "idle" =>
            /\ MarkersInStageOrder(wk[w].log)
            /\ ToolLinesPaired(wk[w].log)
            /\ Len(wk[w].cmds) <= Cardinality({i \in 1..Len(wk[w].log) : wk[w].log[i][1] = "Running"})
            /\ ObservedInOrder(w)

----------------------------------------------------------------------------
(* The map page of the generator window: the rectangle drawn last and       *)
(* getSelectionBounds().  The map has no maxBounds: it scrolls past the     *)
(* antimeridian, and Leaflet then reports longitudes outside [-180, 180].   *)

\* corners of the rectangles a user draws, in whole degrees
RawLons == {-190, -180, -170, 0, 10, 170, 180, 190, 540}
RawLats == {0, 10}
RawBoxes ==
    {b \in [west : RawLons, south : RawLats, east : RawLons, north : RawLats] :
        b.west < b.east /\ b.south < b.north}

\* the % of JavaScript: the remainder has the sign of the dividend
JsRem(a, n) == IF a >= 0 THEN a % n ELSE 0 - ((0 - a) % n)

\* normalizeLon
normalizeLon(lon) == JsRem(JsRem(lon + 180, 360) + 360, 360) - 180

\* what getSelectionBounds returns: null, or the bounds of lastLayer
NullBounds == [null |-> TRUE, west |-> 0, south |-> 0, east |-> 0, north |-> 0]
getSelectionBounds(page) ==
    IF page.drawnItems = {} THEN NullBounds
    ELSE [null |-> FALSE,
          south |-> page.lastLayer.south, north |-> page.lastLayer.north,
          west |-> normalizeLon(page.lastLayer.west), east |-> normalizeLon(page.lastLayer.east)]

\* map.on(L.Draw.Event.CREATED): a rectangle is drawn and replaces the last one
Created ==
    /\ \E layer \in RawBoxes :
          gui' = [gui EXCEPT !.lastLayer = layer, !.drawnItems = {layer}]
    /\ UNCHANGED <<fs, environ, sysPath, wk, sigq, world>>

\* the remove tool of the draw control takes the rectangle off the map
Removed ==
    /\ gui.drawnItems # {}
    /\ gui' = [gui EXCEPT !.drawnItems = {}]
    /\ UNCHANGED <<fs, environ, sysPath, wk, sigq, world>>

\* runJavaScript("getSelectionBounds()", ...): the page evaluates the call
GetSelectionBounds ==
    /\ gui' = [gui EXCEPT !.bounds = getSelectionBounds(gui)]
    /\ UNCHANGED <<fs, environ, sysPath, wk, sigq, world>>

InitSelection ==
    /\ fs = <<>>
    /\ environ = EnvHome
    /\ sysPath = {}
    /\ sigq = <<>>
    /\ world = PlainWorld
    /\ wk = [w \in Workers |-> NoWorker]
    /\ gui = [drawnItems |-> {}, lastLayer |-> NullBounds, bounds |-> NullBounds]

NextSelection == Created \/ Removed \/ GetSelectionBounds

SpecSelection == InitSelection /\ [][NextSelection]_vars

----------------------------------------------------------------------------
(* C25: bounding-box invariant.  The bounds getSelectionBounds returns for  *)
(* a drawn rectangle (west < east and south < north as drawn) satisfy       *)
(* west < east and south < north, with both longitudes in [-180, 180].      *)
C25_BoundsOrdered ==
    ~gui.bounds.null =>
        /\ gui.bounds.west < gui.bounds.east
        /\ gui.bounds.south < gui.bounds.north
        /\ gui.bounds.west \in -180..180
        /\ gui.bounds.east \in -180..180

----------------------------------------------------------------------------
(* C26: run completion signal.  Where every external tool terminates, a     *)
(* started run eventually emits a finished signal; it never emits more than *)
(* one, and it emits no log line after it.  The signal says success only if *)
(* no mandatory stage failed and no exception left create_files, and it     *)
(* says failure, with no plot, in every other case.                         *)
SignalsOf(w) == {i \in 1..Len(sigq) : sigq[i].worker = w}

C26_CompletionSignal ==
    /\ \A w \in Workers : (wk[w].pc # "idle") ~> (Cardinality(SignalsOf(w)) = 1)
    /\ [](\A w \in Workers :
            /\ Cardinality(SignalsOf(w)) <= 1
            /\ \A i \in SignalsOf(w) :
                /\ sigq[i].success => (~MandatoryFailed(wk[w]) /\ wk[w].exc = "" /\ wk[w].ret.success
                                          /\ InLog(wk[w], Msg("log", "PROCESS COMPLETE")))
                /\ ~sigq[i].success => sigq[i].plot_figure = <<>>
                /\ (MandatoryFailed(wk[w]) \/ wk[w].exc # "" \/ wk[w].failed # "none") => ~sigq[i].success)
    /\ [][\A w \in Workers : SignalsOf(w) # {} => (wk'[w].log = wk[w].log /\ SignalsOf(w)' = SignalsOf(w))]_vars

\* a run has ended in success and its one signal, with the plot, is queued
C26_Witness ==
    \E w \in Workers :
        /\ wk[w].pc = "done"
        /\ InLog(wk[w], Msg("log", "PROCESS COMPLETE"))
        /\ \E i \in SignalsOf(w) : sigq[i].success /\ sigq[i].plot_figure # <<>>

----------------------------------------------------------------------------
(* C27: referential integrity of the generated configuration.  At the step  *)
(* that ends a run in success, every file N.launchd.xml copies and every    *)
(* input file N.sumo.cfg names is in the directory, whether the polygon     *)
(* conversion ran, was skipped or failed.                                   *)
Referenced(dir, filename) ==
    (IF launchd_file(filename) \in DOMAIN dir THEN dir[launchd_file(filename)].copies ELSE {})
        \cup (IF sumocfg_file(filename) \in DOMAIN dir
              THEN {dir[sumocfg_file(filename)].net, dir[sumocfg_file(filename)].routes,
                    dir[sumocfg_file(filename)].additional}
              ELSE {})

C27_ReferencedFilesExist ==
    [][\A w \in Workers :
          (wk[w].pc # "done" /\ wk'[w].pc = "done" /\ wk'[w].ret.success) =>
              /\ launchd_file(wk[w].filename) \in DOMAIN fs'
              /\ sumocfg_file(wk[w].filename) \in DOMAIN fs'
              /\ Referenced(fs', wk[w].filename) \subseteq DOMAIN fs']_vars

----------------------------------------------------------------------------
(* C28: at most one generation worker at a time.  In the generator window,  *)
(* whatever the order of Generate clicks, getSelectionBounds callbacks and  *)
(* worker completions, no two SumoWorkers are running at once, and the      *)
(* Generate button stays disabled from the start of a worker until          *)
(* process_finished has handled its finished signal.                        *)
Running(w) == wk[w].pc \notin {"idle", "done"}

C28_SingleWorker ==
    /\ Cardinality({w \in Workers : Running(w)}) <= 1
    /\ \A w \in Workers :
          (Running(w) \/ \E i \in 1..Len(sigq) : sigq[i].worker = w) => ~gui.btn_generate

----------------------------------------------------------------------------
(* C29: the analysis on display is the latest one.  In the analysis window, *)
(* whatever the order of Run Analysis clicks and worker completions: once   *)
(* every started AnalysisWorker has finished and its signals were handled,  *)
(* and the analysis started last has produced a report, the report shown    *)
(* and the figures shown and kept for save_all are those of that analysis.  *)
C29_LatestDisplayed ==
    (/\ sigq = <<>>
     /\ \A w \in Workers : wk[w].pc \in {"idle", "done"}
     /\ gui.worker \in Workers
     /\ wk[gui.worker].stats.report # <<>>) =>
        /\ gui.report_view = wk[gui.worker].stats.report
        /\ gui.figs # {}
        /\ \A fig \in gui.figs \cup gui.plots : fig.of = wk[gui.worker].base_name

----------------------------------------------------------------------------
(* C30: tool-root precondition.  The step of a run that finds SUMO_HOME     *)
(* unset and the fallback path missing ends the run in failure before       *)
(* AcquireMap begins: no external tool was invoked, no file was created,    *)
(* renamed or deleted, and os.environ and sys.path are as they were.        *)
NoToolRoot == Msg("log", "Error: SUMO_HOME environment variable is not set and fallback path not found.")

C30_ToolRootPrecondition ==
    [][\A w \in Workers :
          (~InLog(wk[w], NoToolRoot) /\ InLog(wk'[w], NoToolRoot)) =>
              /\ environ = "unset"
              /\ wk'[w].pc = "done"
              /\ sigq' = Append(sigq, [worker |-> w, success |-> FALSE, plot_figure |-> <<>>])
              /\ StagesEntered(wk'[w]) = <<>>
              /\ wk'[w].cmds = <<>>
              /\ wk'[w].ops = {}
              /\ fs' = fs
              /\ environ' = environ
              /\ sysPath' = sysPath]_vars

\* a run has stopped for want of a tool root, in a directory that holds a file
C30_Witness ==
    \E w \in Workers :
        /\ InLog(wk[w], NoToolRoot)
        /\ wk[w].pc = "done"
        /\ EmittedFailure(w)
        /\ environ = "unset"
        /\ fs # <<>>

====
